---------------------------- MODULE Spec2Model ----------------------------
(***************************************************************************)
(* A model of py-c3d (src/c3d): the Manager's group directory, the         *)
(* parameter map of a group, the derived frame quantities, the metadata    *)
(* check, the frame generator of the Reader, the frame bookkeeping of the  *)
(* Writer and the round trip of a frame from a file through a Writer to a  *)
(* file, with the float32 and float64 arithmetic of its conversions.       *)
(*                                                                         *)
(* Each part of the package has its own variables and its own              *)
(* specification; a specification leaves the variables of the other parts  *)
(* at their idle values.                                                   *)
(***************************************************************************)
EXTENDS Integers, Sequences, FiniteSets, TLC

VARIABLES
    groups,     \* Manager._groups: the directory, a dict from keys to groups
    gname,      \* GroupData.name of every GroupData object created so far
    dlast,      \* the last directory call: its arguments, outcome and pre-state
    params,     \* GroupData._params of one group: a dict from keys to Param objects
    plast,      \* the last parameter call: its arguments, outcome and pre-state
    wr,         \* a Writer: its header fields, frame parameters and frames
    file,       \* the metadata of a C3D file: header fields and frame parameters
    derived,    \* the frame quantities a Reader of the file derives
    gen,        \* a read_frames generator and the data section it reads
    meta,       \* a Manager whose metadata is checked, and the outcome of the check
    trip,       \* a frame on its way from a file through a Writer to a file
    mgr,        \* a Manager whose derived quantities are read, and the last one read
    opn,        \* a Reader under construction: the bytes it checks and how far it has come
    itr,        \* the frames generator of read_frames and the arrays it yielded
    wbuf,       \* the frames buffer of a Writer and the last call of add_frames
    enc,        \* a Header and the last call of encode_events on it
    conv,       \* a call of Writer.from_reader: its arguments, its position, the Writer made
    arr,        \* a parameter with dimensions and the array that an accessor returned
    rew,        \* a Writer, the file it wrote, the Writer made of the file read, and the file written again
    wrd,        \* the fourth word of a point and the values decoded from it
    sec,        \* the groups of a Writer by id, the records written for them and the records read back
    lay,        \* the positions in the file that Writer.write writes
    dec,        \* a DEC float of a file and the IEEE patterns converted from it
    wfr         \* two buffers of frames and the point words written for them

dirVars == <<groups, gname, dlast>>
parVars == <<params, plast>>
frmVars == <<wr, file, derived>>
vars == <<groups, gname, dlast, params, plast, wr, file, derived, gen, meta, trip, mgr, opn, itr, wbuf, enc, conv, arr, rew, wrd, sec, lay, dec, wfr>>

\* The variables of the other parts.
notDir == <<params, plast, wr, file, derived, gen, meta, trip, mgr, opn, itr, wbuf, enc, conv, arr, rew, wrd, sec, lay, dec, wfr>>
notPar == <<groups, gname, dlast, wr, file, derived, gen, meta, trip, mgr, opn, itr, wbuf, enc, conv, arr, rew, wrd, sec, lay, dec, wfr>>
notFrm == <<groups, gname, dlast, params, plast, gen, meta, trip, mgr, opn, itr, wbuf, enc, conv, arr, rew, wrd, sec, lay, dec, wfr>>
notGen == <<groups, gname, dlast, params, plast, wr, file, derived, meta, trip, mgr, opn, itr, wbuf, enc, conv, arr, rew, wrd, sec, lay, dec, wfr>>
notMeta == <<groups, gname, dlast, params, plast, wr, file, derived, gen, trip, mgr, opn, itr, wbuf, enc, conv, arr, rew, wrd, sec, lay, dec, wfr>>
notTrip == <<groups, gname, dlast, params, plast, wr, file, derived, gen, meta, mgr, opn, itr, wbuf, enc, conv, arr, rew, wrd, sec, lay, dec, wfr>>
notMgr == <<groups, gname, dlast, params, plast, wr, file, derived, gen, meta, trip, opn, itr, wbuf, enc, conv, arr, rew, wrd, sec, lay, dec, wfr>>
notOpn == <<groups, gname, dlast, params, plast, wr, file, derived, gen, meta, trip, mgr, itr, wbuf, enc, conv, arr, rew, wrd, sec, lay, dec, wfr>>
notItr == <<groups, gname, dlast, params, plast, wr, file, derived, gen, meta, trip, mgr, opn, wbuf, enc, conv, arr, rew, wrd, sec, lay, dec, wfr>>
notBuf == <<groups, gname, dlast, params, plast, wr, file, derived, gen, meta, trip, mgr, opn, itr, enc, conv, arr, rew, wrd, sec, lay, dec, wfr>>
notEnc == <<groups, gname, dlast, params, plast, wr, file, derived, gen, meta, trip, mgr, opn, itr, wbuf, conv, arr, rew, wrd, sec, lay, dec, wfr>>
notConv == <<groups, gname, dlast, params, plast, wr, file, derived, gen, meta, trip, mgr, opn, itr, wbuf, enc, arr, rew, wrd, sec, lay, dec, wfr>>
notArr == <<groups, gname, dlast, params, plast, wr, file, derived, gen, meta, trip, mgr, opn, itr, wbuf, enc, conv, rew, wrd, sec, lay, dec, wfr>>
notRew == <<groups, gname, dlast, params, plast, wr, file, derived, gen, meta, trip, mgr, opn, itr, wbuf, enc, conv, arr, wrd, sec, lay, dec, wfr>>
notWord == <<groups, gname, dlast, params, plast, wr, file, derived, gen, meta, trip, mgr, opn, itr, wbuf, enc, conv, arr, rew, sec, lay, dec, wfr>>
notSection == <<groups, gname, dlast, params, plast, wr, file, derived, gen, meta, trip, mgr, opn, itr, wbuf, enc, conv, arr, rew, wrd, lay, dec, wfr>>
notLayout == <<groups, gname, dlast, params, plast, wr, file, derived, gen, meta, trip, mgr, opn, itr, wbuf, enc, conv, arr, rew, wrd, sec, dec, wfr>>
notDec == <<groups, gname, dlast, params, plast, wr, file, derived, gen, meta, trip, mgr, opn, itr, wbuf, enc, conv, arr, rew, wrd, sec, lay, wfr>>
notStream == <<groups, gname, dlast, params, plast, wr, file, derived, gen, meta, trip, mgr, opn, itr, wbuf, enc, conv, arr, rew, wrd, sec, lay, dec>>

-----------------------------------------------------------------------------
(* Python values shared by the parts of the model.                          *)

\* A str is a sequence of one-character strings.  None is a value of its own.
None == <<"None">>

NameChars == {"a", "A", "b", "B"}

\* str.upper() on one character of the alphabet.
UpperChar(c) == CASE c = "a" -> "A"
                  [] c = "b" -> "B"
                  [] OTHER -> c

\* str.upper()
Upper(s) == [i \in DOMAIN s |-> UpperChar(s[i])]

\* dict operations
DictPut(d, k, v) == [x \in (DOMAIN d) \cup {k} |-> IF x = k THEN v ELSE d[x]]
DictDel(d, k) == [x \in (DOMAIN d) \ {k} |-> d[x]]
EmptyDict == <<>>

-----------------------------------------------------------------------------
(* The group directory: Manager._groups.                                    *)

\* The number of GroupData objects a run creates, and the numeric ids it uses.
MaxObjects == 2
MaxId == 2

GroupIds == 1..MaxId

\* The names the calls are made with.
InNames == {<<"a">>, <<"A">>, <<"b">>}

\* Keys of the one dict: an int, a str or None.
IntKey(n) == <<"int", n, <<>>>>
StrKey(s) == <<"str", 0, s>>
NoneKey == <<"none", 0, <<>>>>
IsIntKey(k) == k[1] = "int"
IsStrKey(k) == k[1] = "str"

\* The key a name attribute is looked up under.
NameKey(name) == IF name = None THEN NoneKey ELSE StrKey(name)

\* Values of the dict: the Group wrapper of a GroupData object, or (after a
\* rename through a Group instance) the bare GroupData object.
GroupOf(o) == [kind |-> "Group", obj |-> o]
DataOf(o) == [kind |-> "GroupData", obj |-> o]

Objects == DOMAIN gname

NoGroup == [kind |-> "None", obj |-> 0]

\* What a directory call hands back: how it ended and the state it left.
DirResult(res, g, nm) == [res |-> res, groups |-> g, gname |-> nm]

\* Manager._add_group(group_id, name, desc)
add_group(g, nm, id, name) ==
    LET up == IF name = None THEN None ELSE Upper(name)
        o == Len(nm) + 1
    IN  IF IntKey(id) \in DOMAIN g THEN DirResult("KeyError", g, nm)
        ELSE IF NameKey(up) \in DOMAIN g THEN DirResult("KeyError", g, nm)
        ELSE DirResult("ok",
                       DictPut(DictPut(g, IntKey(id), GroupOf(o)), NameKey(up), GroupOf(o)),
                       Append(nm, up))

\* `v == grp` on two values of the dict.  GroupReadonly.__eq__ reads
\* other._data, which a GroupData object does not have; GroupData has no
\* __eq__ of its own, so Python falls back on the reflected call.
EqRaises(v, w) == v.kind # w.kind
EqGroups(v, w) == v.obj = w.obj

\* Manager._remove_group(group_id)
remove_group(g, nm, key) ==
    IF key \notin DOMAIN g THEN DirResult("ok", g, nm)
    ELSE LET grp == g[key]
         IN  IF \E k \in DOMAIN g : EqRaises(g[k], grp)
             THEN DirResult("AttributeError", g, nm)
             ELSE DirResult("ok",
                            [k \in {x \in DOMAIN g : ~EqGroups(g[x], grp)} |-> g[k]],
                            nm)

\* The caller names a group by a key of the dict or by a Group instance.
ByKey(k) == [byObject |-> FALSE, key |-> k, obj |-> 0]
ByObject(o) == [byObject |-> TRUE, key |-> NoneKey, obj |-> o]

\* Manager._rename_group(group_id, new_group_id)
rename_group(g, nm, ref, new) ==
    LET found == ref.byObject \/ ref.key \in DOMAIN g
        grp == IF ref.byObject THEN DataOf(ref.obj) ELSE g[ref.key]
        old == NameKey(nm[grp.obj])
        cleared == IF old \in DOMAIN g THEN DictDel(g, old) ELSE g
    IN  IF ~found THEN DirResult("KeyError", g, nm)
        ELSE IF new \in DOMAIN g THEN
            \* new_group_id == group_id: an int or a str compared with a Group
            IF ref.byObject THEN DirResult("AttributeError", g, nm)
            ELSE IF new = ref.key THEN DirResult("ok", g, nm)
            ELSE DirResult("ValueError", g, nm)
        ELSE IF IsStrKey(new) THEN
            DirResult("ok", DictPut(cleared, new, grp), [nm EXCEPT ![grp.obj] = new[3]])
        ELSE
            \* del self._groups[group_id]: a Group instance is not hashable
            IF ref.byObject THEN DirResult("TypeError", g, nm)
            ELSE DirResult("ok", DictPut(DictDel(g, ref.key), new, grp), nm)

\* Manager.get(group) with an int or with a str that names a group
get(g, key) ==
    IF IsIntKey(key)
    THEN IF key \in DOMAIN g THEN g[key] ELSE NoGroup
    ELSE LET k == StrKey(Upper(key[3]))
         IN  IF k \in DOMAIN g THEN g[k] ELSE NoGroup

\* Manager.keys(): the name keys
keys(g) == {k \in DOMAIN g : IsStrKey(k)}

\* Manager.listed(): the (int, group) pairs (sorted by the int)
listed(g) == {<<k[2], g[k]>> : k \in {x \in DOMAIN g : IsIntKey(x)}}

\* The arguments the calls are made with.
InKeys == {IntKey(i) : i \in GroupIds} \cup {StrKey(s) : s \in InNames}
InRefs == {ByKey(k) : k \in InKeys} \cup {ByObject(o) : o \in Objects}

DirCall(op, ref, new, r) ==
    [op |-> op, ref |-> ref, new |-> new, res |-> r.res, pre |-> groups, preName |-> gname]

ApplyDir(op, ref, new, r) ==
    /\ groups' = r.groups
    /\ gname' = r.gname
    /\ dlast' = DirCall(op, ref, new, r)
    /\ UNCHANGED notDir

\* The parameter section is read record by record while the Reader is being
\* constructed; the Writer's calls come once a Manager exists.
ReaderOps == {"none", "read_param", "read_group"}
Constructing == dlast.op \in ReaderOps /\ dlast.res = "ok"
Constructed == dlast.op \notin ReaderOps \/ dlast.op = "none"

\* Reader.__init__, one record of a parameter: its group is created blank if
\* no group has the record's id yet.
ReadParamRecord ==
    \E id \in GroupIds :
        LET r == IF get(groups, IntKey(id)) = NoGroup
                 THEN add_group(groups, gname, id, None)
                 ELSE DirResult("ok", groups, gname)
        IN  /\ Constructing
            /\ r.gname # gname => Len(gname) < MaxObjects
            /\ ApplyDir("read_param", ByKey(IntKey(id)), NoneKey, r)

\* Reader.__init__, one record of a group: a group that exists under the id
\* is renamed through its Group instance, otherwise the group is added.
ReadGroupRecord ==
    \E id \in GroupIds, name \in InNames :
        LET group == get(groups, IntKey(id))
            r == IF group # NoGroup
                 THEN rename_group(groups, gname, ByObject(group.obj), StrKey(Upper(name)))
                 ELSE add_group(groups, gname, id, Upper(name))
        IN  /\ Constructing
            /\ r.gname # gname /\ group = NoGroup => Len(gname) < MaxObjects
            /\ ApplyDir("read_group", ByKey(IntKey(id)), StrKey(Upper(name)), r)

\* Reader.__init__: the end of the parameter section.
ReadEnd ==
    /\ Constructing
    /\ dlast.op # "none"
    /\ ApplyDir("reader", ByKey(NoneKey), NoneKey, DirResult("ok", groups, gname))

\* Writer.add_group(group_id, name, desc)
AddGroup ==
    \E id \in GroupIds, name \in InNames :
        LET r == add_group(groups, gname, id, name)
        IN  /\ Constructed
            /\ r.res = "ok" => Len(gname) < MaxObjects
            /\ ApplyDir("add_group", ByKey(IntKey(id)), NameKey(name), r)

\* Writer.remove_group(group_id)
RemoveGroup ==
    \E key \in InKeys :
        LET r == remove_group(groups, gname, key)
        IN  Constructed /\ ApplyDir("remove_group", ByKey(key), NoneKey, r)

\* Writer.rename_group(group_id, new_group_id)
RenameGroup ==
    \E ref \in InRefs, new \in InKeys :
        LET r == rename_group(groups, gname, ref, new)
        IN  Constructed /\ ApplyDir("rename_group", ref, new, r)

NoDirCall == [op |-> "none", ref |-> ByKey(NoneKey), new |-> NoneKey, res |-> "ok",
              pre |-> EmptyDict, preName |-> <<>>]

-----------------------------------------------------------------------------
(* The parameters of one group: GroupData._params.                          *)

\* A Param object: which object it is and its name attribute.
ParamOf(o, name) == [obj |-> o, name |-> name]
NoParam == [obj |-> 0, name |-> None]

\* The names the parameter calls are made with.
InParamNames == {<<"a">>, <<"A">>, <<"b">>}

ParResult(res, p) == [res |-> res, params |-> p]

\* The object a new Param is.
NewParam(p) == CHOOSE o \in 1..(Cardinality(DOMAIN p) + 1) : \A k \in DOMAIN p : p[k].obj # o

\* GroupData.add_param(name, **kwargs)
add_param(p, name) ==
    LET up == Upper(name)
    IN  IF up \in DOMAIN p THEN ParResult("KeyError", p)
        ELSE ParResult("ok", DictPut(p, up, ParamOf(NewParam(p), up)))

\* GroupData.remove_param(name)
remove_param(p, name) ==
    IF name \in DOMAIN p THEN ParResult("ok", DictDel(p, name)) ELSE ParResult("KeyError", p)

\* GroupData.rename_param(name, new_name), name a str
rename_param(p, name, new_name) ==
    IF new_name \in DOMAIN p THEN ParResult("ValueError", p)
    ELSE IF name \notin DOMAIN p THEN ParResult("KeyError", p)
    ELSE ParResult("ok", DictPut(DictDel(p, name), new_name, p[name]))

\* GroupData.rename_param(name, new_name), name a Param of the group
rename_param_object(p, param, new_name) ==
    IF new_name \in DOMAIN p THEN ParResult("ValueError", p)
    ELSE IF param.name \notin DOMAIN p THEN ParResult("KeyError", p)
    ELSE ParResult("ok", DictPut(DictDel(p, param.name), new_name, param))

\* Group.get(key)
group_get(p, key) == IF key \in DOMAIN p THEN p[key] ELSE NoParam

\* GroupReadonly.__contains__(key)
contains(p, key) == key \in DOMAIN p

\* Manager.get('GROUP:PARAM'), the parameter part
get_param(p, name) == group_get(p, Upper(name))

\* GroupData.write: the names in the records written for the parameters, each
\* the name attribute of the parameter
written_names(p) == {p[k].name : k \in DOMAIN p}

\* Reader.__init__: the keys under which the parameters of the records are
\* added to their group
read_keys(p) == {Upper(name) : name \in written_names(p)}

ParCall(op, name, new, r) ==
    [op |-> op, name |-> name, new |-> new, res |-> r.res, pre |-> params]

ApplyPar(op, name, new, r) ==
    /\ params' = r.params
    /\ plast' = ParCall(op, name, new, r)
    /\ UNCHANGED notPar

\* Group.add_param(name, ...)
AddParam ==
    \E name \in InParamNames :
        LET r == add_param(params, name)
        IN  ApplyPar("add_param", name, None, r)

\* Group.remove_param(name)
RemoveParam ==
    \E name \in InParamNames :
        LET r == remove_param(params, name)
        IN  ApplyPar("remove_param", name, None, r)

\* Group.rename_param(name, new_name) with a str
RenameParam ==
    \E name \in InParamNames, new \in InParamNames :
        LET r == rename_param(params, name, new)
        IN  ApplyPar("rename_param", name, new, r)

\* Group.rename_param(param, new_name) with a Param of the group
RenameParamObject ==
    \E k \in DOMAIN params, new \in InParamNames :
        LET r == rename_param_object(params, params[k], new)
        IN  ApplyPar("rename_param_object", k, new, r)

NoParCall == [op |-> "none", name |-> None, new |-> None, res |-> "ok", pre |-> EmptyDict]

-----------------------------------------------------------------------------
(* Numbers as the file holds them.  The bytes of a parameter are kept as    *)
(* little-endian 16-bit words.                                              *)

RECURSIVE Pow2(_)
Pow2(n) == IF n = 0 THEN 1 ELSE 2 * Pow2(n - 1)

\* The number of binary digits of a positive integer.
RECURSIVE BitLength(_)
BitLength(n) == IF n = 0 THEN 0 ELSE 1 + BitLength(n \div 2)

UINT16_MAX == 65535

\* struct.pack('<H', n)
PackU16(n) == <<n>>

\* struct.pack('<I', n)
PackU32(n) == <<n % 65536, n \div 65536>>

\* The words of the IEEE single with the given sign, exponent and fraction.
F32Words(sign, exp, man) == <<man % 65536, sign * 32768 + exp * 128 + man \div 65536>>

\* struct.pack('<f', n) of an int n >= 0: n rounded to 24 significant bits,
\* ties to even.
PackF32(n) ==
    IF n = 0 THEN F32Words(0, 0, 0)
    ELSE LET e == BitLength(n) - 1
             shift == e - 23
             q == n \div Pow2(shift)
             r == n % Pow2(shift)
             half == Pow2(shift - 1)
             up == r > half \/ (r = half /\ q % 2 = 1)
             sig == IF shift <= 0 THEN n * Pow2(-shift)
                    ELSE IF up THEN q + 1 ELSE q
         IN  IF sig = Pow2(24) THEN F32Words(0, e + 128, 0)
             ELSE F32Words(0, e + 127, sig - Pow2(23))

\* A parameter as get() returns it: its element width and its bytes, or None.
ParamValue(bpe, words) == [bpe |-> bpe, words |-> words]
Absent == [bpe |-> 0, words |-> <<>>]

\* ParamReadonly.uint16_value
uint16_value(param) == param.words[1]

\* ParamReadonly.uint32_value
uint32_value(param) == param.words[1] + 65536 * param.words[2]

\* int(param.float_value) of a 4-byte parameter: the IEEE single in the
\* bytes, truncated toward zero.
int_float_value(param) ==
    LET hi == param.words[2]
        sign == hi \div 32768
        exp == (hi % 32768) \div 128
        man == (hi % 128) * 65536 + param.words[1]
        sig == Pow2(23) + man
        mag == IF exp < 127 THEN 0
               ELSE IF exp >= 150 THEN sig * Pow2(exp - 150)
               ELSE sig \div Pow2(150 - exp)
    IN  IF sign = 1 THEN 0 - mag ELSE mag

\* np.max
Max(S) == CHOOSE x \in S : \A y \in S : y <= x

\* The frame metadata of a Manager: the header's first_frame and last_frame,
\* TRIAL:ACTUAL_START_FIELD, TRIAL:ACTUAL_END_FIELD, POINT:LONG_FRAMES,
\* POINT:FRAMES, the header's point_count and POINT:USED.
Metadata(hfirst, hlast, start, end, long, frames, count, used) ==
    [hfirst |-> hfirst, hlast |-> hlast, start |-> start, end |-> end,
     long |-> long, frames |-> frames, point_count |-> count, used |-> used]

\* Manager.point_used
point_used(m) == IF m.used # Absent THEN uint16_value(m.used) ELSE m.point_count

\* Manager.first_frame
first_frame(m) == IF m.start # Absent THEN uint32_value(m.start) ELSE m.hfirst

\* A variant of the test below without the comparison with 65535.
HeaderPairValid_Unsaturated(m) == m.hfirst < m.hlast

\* Manager.last_frame, the header pair taken at face value
HeaderPairValid(m) == m.hfirst < m.hlast /\ m.hlast # UINT16_MAX

\* Manager.last_frame, the entries of end_frame
end_frame(m) ==
    << m.hlast,
       IF m.end # Absent THEN uint32_value(m.end) ELSE 0,
       IF m.long # Absent
       THEN IF m.long.bpe >= 4 THEN int_float_value(m.long) ELSE uint16_value(m.long)
       ELSE 0,
       IF m.frames # Absent
       THEN IF m.frames.bpe = 4 THEN int_float_value(m.frames) ELSE uint16_value(m.frames)
       ELSE 0 >>

\* Manager.last_frame
last_frame(m) ==
    IF HeaderPairValid(m) THEN m.hlast
    ELSE Max({end_frame(m)[i] : i \in 1..4})

\* Manager.frame_count
frame_count(m) == last_frame(m) - first_frame(m) + 1

\* What a Reader of the file reports.
NotRead == [read |-> FALSE, first |-> 0, last |-> 0, count |-> 0, used |-> 0]
Derive(m) == [read |-> TRUE, first |-> first_frame(m), last |-> last_frame(m),
              count |-> frame_count(m), used |-> point_used(m)]

-----------------------------------------------------------------------------
(* The Writer's frame bookkeeping and the file it writes.                   *)

\* The number of add_frames calls of a run.
MaxAdds == 3

\* The arguments of set_start_frame, the numbers of frames one add_frames
\* call adds, and the numbers of points of a frame.
StartFrames == {1, 2, 65535, 70000}
FrameBatches == {1, 2, 65534, 16777216}
PointCounts == {1, 2}

Min(a, b) == IF a < b THEN a ELSE b

\* Header.__init__ and Manager.__init__: no parameters, first_frame and
\* last_frame 1, point_count 50.
NewMetadata == Metadata(1, 1, Absent, Absent, Absent, Absent, 50, Absent)

\* Writer.__init__
NewWriter == [m |-> NewMetadata, nframes |-> 0, ppf |-> 0, adds |-> 0]

\* Writer.set_start_frame(frame)
set_start_frame(m, frame) ==
    [m EXCEPT !.start = ParamValue(2, PackU32(frame)),
              !.hfirst = IF frame < UINT16_MAX THEN frame ELSE UINT16_MAX]

\* Writer._set_last_frame(frame)
set_last_frame(m, frame) ==
    [m EXCEPT !.end = ParamValue(2, PackU32(frame)),
              !.hlast = Min(frame, UINT16_MAX)]

\* Writer.write(handle): the metadata the Writer holds, and writes, for
\* nframes frames of ppf points.
write(m, nframes, ppf) ==
    LET first == IF first_frame(m) <= 0 THEN 1 ELSE first_frame(m)
        last == first + nframes - 1
        point == [m EXCEPT
                    !.used = ParamValue(2, PackU16(ppf)),
                    !.frames = ParamValue(2, PackU16(Min(UINT16_MAX, nframes))),
                    !.long = IF nframes >= UINT16_MAX
                             THEN ParamValue(4, PackF32(nframes))
                             ELSE Absent]
        trial == set_last_frame(set_start_frame(point, first), last)
    IN  [trial EXCEPT !.point_count = ppf]

NoFile == [written |-> FALSE, s |-> 0, n |-> 0, p |-> 0, m |-> NewMetadata]

\* Writer.set_start_frame(frame)
SetStartFrame ==
    \E frame \in StartFrames :
        /\ wr' = [wr EXCEPT !.m = set_start_frame(wr.m, frame)]
        /\ UNCHANGED <<file, derived, notFrm>>

\* Writer.add_frames(frames): k frames of p points each are appended.
AddFrames ==
    \E k \in FrameBatches, p \in PointCounts :
        /\ wr.adds < MaxAdds
        /\ wr.nframes = 0 \/ p = wr.ppf
        /\ wr' = [wr EXCEPT !.nframes = wr.nframes + k, !.ppf = p, !.adds = wr.adds + 1]
        /\ UNCHANGED <<file, derived, notFrm>>

\* Writer.write(handle); without frames it raises RuntimeError before
\* anything is written.
Write ==
    /\ wr.nframes > 0
    /\ LET m == write(wr.m, wr.nframes, wr.ppf)
       IN  /\ wr' = [wr EXCEPT !.m = m]
           /\ file' = [written |-> TRUE, s |-> first_frame(wr.m), n |-> wr.nframes,
                       p |-> wr.ppf, m |-> m]
    /\ derived' = NotRead
    /\ UNCHANGED notFrm

\* Reader(handle) on the file, and its frame properties.
OpenReader ==
    /\ file.written
    /\ derived' = Derive(file.m)
    /\ UNCHANGED <<wr, file, notFrm>>

\* The files whose frame range is read: header words and parameters of the
\* encodings found in files.
InHeaderFirst == {0, 1, 3, 65535}
InHeaderLast == {0, 2, 3, 65535}
InStart == {Absent, ParamValue(2, PackU32(1)), ParamValue(2, PackU32(3))}
InEnd == {Absent, ParamValue(2, PackU32(2)), ParamValue(2, PackU32(70000))}
InLong == {Absent, ParamValue(4, PackF32(70001)), ParamValue(4, F32Words(0, 128, 2097152)),
           ParamValue(2, PackU16(7))}
InFrames == {Absent, ParamValue(2, PackU16(65535)), ParamValue(2, PackU16(5)),
             ParamValue(4, PackF32(9)), ParamValue(4, F32Words(1, 129, 0))}
InMetadata ==
    {Metadata(hf, hl, st, en, lo, fr, 1, Absent) :
        hf \in InHeaderFirst, hl \in InHeaderLast, st \in InStart,
        en \in InEnd, lo \in InLong, fr \in InFrames}

-----------------------------------------------------------------------------
(* The frame generator: Reader.read_frames.                                 *)

\* The frame ranges, the bytes of one frame and the sizes of the data
\* section (from the start of the data to the end of the file) that are read.
InFirst == {1, 3}
InCounts == {-1, 0, 1, 2, 3}
InPointBytes == {0, 8, 16}
InAnalogBytes == {0, 2, 4}
InSizes == {0, 7, 8, 10, 12, 20, 24, 30, 36, 40, 60, 600}

\* handle.read(n) with `left` bytes before the end of the file: the number
\* of bytes returned.
read(n, left) == Min(n, left)

\* A variant of the test below that also takes a read of all the bytes asked
\* for as short.
Incomplete_Always(got, want) == got <= want

\* len(raw_bytes) < point_bytes, len(raw_analog) < analog_bytes
Incomplete(got, want) == got < want

\* read_frames(...) called: the generator object, which has not run yet.
Generator(first, last, point_bytes, analog_bytes, size) ==
    [first |-> first, last |-> last, point_bytes |-> point_bytes,
     analog_bytes |-> analog_bytes, size |-> size,
     pc |-> "created", frame_no |-> first, pos |-> 0, yielded |-> <<>>, warned |-> FALSE]

NoGenerator == Generator(1, 0, 0, 0, 0)

\* next(generator): the body of read_frames runs to its next yield or to its end.
resume(g) ==
    IF g.frame_no > g.last THEN
        \* the range is exhausted: the check for blocks that were not read
        [g EXCEPT !.pc = "done", !.warned = g.size - g.pos >= 512]
    ELSE
        LET raw_bytes == read(g.point_bytes, g.size - g.pos)
            raw_analog == read(g.analog_bytes, g.size - g.pos - raw_bytes)
            pos == g.pos + raw_bytes + raw_analog
        IN  IF Incomplete(raw_bytes, g.point_bytes) \/ Incomplete(raw_analog, g.analog_bytes)
            THEN [g EXCEPT !.pc = "done", !.pos = pos, !.warned = TRUE]
            ELSE [g EXCEPT !.pc = "suspended", !.pos = pos,
                           !.yielded = Append(g.yielded, g.frame_no),
                           !.frame_no = g.frame_no + 1]

\* next(generator)
ResumeGenerator ==
    /\ gen.pc # "done"
    /\ gen' = resume(gen)
    /\ UNCHANGED notGen

-----------------------------------------------------------------------------
(* The metadata check: Manager._check_metadata.                             *)

\* A parameter by its value, or None.  Rates and scale factors are floats
\* with integer values.
Some(v) == [present |-> TRUE, v |-> v]
Missing == [present |-> FALSE, v |-> 0]

\* The header fields and the parameters the check reads.
Header(point_count, scale_factor, frame_rate, analog_per_frame, analog_count, data_block) ==
    [point_count |-> point_count, scale_factor |-> scale_factor, frame_rate |-> frame_rate,
     analog_per_frame |-> analog_per_frame, analog_count |-> analog_count,
     data_block |-> data_block]
Groups(used, scale, rate, analog_used, analog_rate, data_start, labels, descriptions) ==
    [used |-> used, scale |-> scale, rate |-> rate, analog_used |-> analog_used,
     analog_rate |-> analog_rate, data_start |-> data_start,
     labels |-> labels, descriptions |-> descriptions]

\* Manager.point_used, point_scale, point_rate, analog_rate, analog_used on
\* a header h and parameters g
PointUsed(h, g) == IF g.used.present THEN g.used.v ELSE h.point_count
PointScale(h, g) == IF g.scale.present THEN g.scale.v ELSE h.scale_factor
PointRate(h, g) == IF g.rate.present THEN g.rate.v ELSE h.frame_rate
AnalogRate(h, g) ==
    IF g.analog_rate.present THEN g.analog_rate.v ELSE h.analog_per_frame * PointRate(h, g)
AnalogUsed(h, g) ==
    IF g.analog_used.present THEN g.analog_used.v
    ELSE IF h.analog_per_frame > 0 THEN h.analog_count \div h.analog_per_frame
    ELSE 0

\* header.analog_per_frame == ratio, ratio the float analog_rate / point_rate
\* (0 when point_rate is 0)
RatioAgrees(h, g) ==
    IF PointRate(h, g) # 0
    THEN h.analog_per_frame * PointRate(h, g) = AnalogRate(h, g)
    ELSE h.analog_per_frame = 0

\* A variant of the test below that takes every analog count as consistent.
CountAgrees_Any(h, g) == TRUE

\* header.analog_count == analog_used * header.analog_per_frame
CountAgrees(h, g) == h.analog_count = AnalogUsed(h, g) * h.analog_per_frame

\* The asserts of _check_metadata hold.
AssertsHold(h, g) ==
    /\ h.point_count = PointUsed(h, g)
    /\ h.scale_factor = PointScale(h, g)
    /\ h.frame_rate = PointRate(h, g)
    /\ RatioAgrees(h, g)
    /\ CountAgrees(h, g)

\* The warnings of _check_metadata.
Warnings(h, g) ==
    (IF ~g.data_start.present THEN {"no pointer available in POINT:DATA_START"}
     ELSE IF h.data_block # g.data_start.v THEN {"inconsistent data block"}
     ELSE {})
    \cup
    (IF PointUsed(h, g) > 0
     THEN (IF g.labels = "absent" THEN {"missing parameter POINT:LABELS"} ELSE {})
          \cup (IF ~g.descriptions THEN {"missing parameter POINT:DESCRIPTIONS"} ELSE {})
     ELSE IF g.labels = "absent" THEN {"No point data found in file."}
     ELSE IF g.labels = "entries" THEN {"No point data found in file, but LABELS"}
     ELSE {})

\* Manager._check_metadata(): how it ends, what it warns of and the header
\* and parameters it leaves.  An assert raises when Python runs with
\* assertions (__debug__).
check_metadata(debug, h, g) ==
    IF debug /\ ~AssertsHold(h, g)
    THEN [res |-> "AssertionError", warnings |-> {}, h |-> h, g |-> g]
    ELSE [res |-> "ok", warnings |-> Warnings(h, g), h |-> h, g |-> g]

\* Writer.write: the parameters and header fields set before the check, for
\* frames of ppf points and an analog array of the given shape.
write_sync(h, g, ppf, channels, samples, start_block) ==
    [h |-> [h EXCEPT !.data_block = start_block,
                     !.point_count = ppf,
                     !.analog_count = channels * samples],
     g |-> [g EXCEPT !.used = Some(ppf),
                     !.data_start = Some(start_block),
                     !.scale = Some(PointScale(h, g)),
                     !.rate = Some(PointRate(h, g)),
                     !.analog_used = Some(channels),
                     !.analog_rate = Some(AnalogRate(h, g)),
                     !.descriptions = TRUE]]

\* The Managers that are checked.
InHeaders ==
    {Header(pc, sf, 60, apf, ac, 3) :
        pc \in {0, 2}, sf \in {-1, 1}, apf \in {0, 2}, ac \in {0, 2, 4}}
InGroups ==
    {Groups(u, sc, r, au, ar, ds, lb, TRUE) :
        u \in {Missing, Some(2), Some(3)}, sc \in {Missing, Some(1)},
        r \in {Missing, Some(0), Some(30), Some(60)},
        au \in {Missing, Some(1), Some(2)}, ar \in {Missing, Some(120), Some(90)},
        ds \in {Missing, Some(3), Some(4)}, lb \in {"absent", "entries"}}
\* The frames of a Writer: points, analog channels and samples per channel.
InShapes == {<<2, 0, 0>>, <<2, 1, 2>>, <<2, 2, 1>>}

Unchecked(debug, h, g) ==
    [debug |-> debug, by |-> "none", h |-> h, g |-> g,
     out |-> [res |-> "none", warnings |-> {}, h |-> h, g |-> g]]

NoCheck ==
    Unchecked(TRUE, Header(50, -1, 60, 0, 0, 3),
              Groups(Missing, Missing, Missing, Missing, Missing, Missing, "absent", FALSE))

\* Reader(handle): after the parameter section is read the metadata is checked.
ReaderInit ==
    /\ meta.by = "none"
    /\ meta' = [meta EXCEPT !.by = "Reader", !.out = check_metadata(meta.debug, meta.h, meta.g)]
    /\ UNCHANGED notMeta

\* Writer.write(handle): the parameters are set, the metadata is checked and
\* then written.
WriterWrite ==
    \E shape \in InShapes, block \in {3, 5} :
        LET w == write_sync(meta.h, meta.g, shape[1], shape[2], shape[3], block)
        IN  /\ meta.by = "none"
            /\ meta' = [meta EXCEPT !.by = "Writer", !.h = w.h, !.g = w.g,
                                    !.out = check_metadata(meta.debug, w.h, w.g)]
            /\ UNCHANGED notMeta

-----------------------------------------------------------------------------
(* IEEE arithmetic as numpy performs it: round to nearest, ties to even, on *)
(* 24 significant bits (float32) or 53 (float64).  A natural number is a    *)
(* sequence of digits in base 2^15, least significant first, without        *)
(* leading zeros; a float is a sign, such a natural and an exponent of two. *)

SinglePrecision == 24
DoublePrecision == 53

DigitBits == BitLength(UINT16_MAX) - 1
Base == Pow2(DigitBits)

RECURSIVE LTrim(_)
LTrim(a) ==
    IF a = <<>> THEN <<>>
    ELSE IF a[Len(a)] = 0 THEN LTrim(SubSeq(a, 1, Len(a) - 1))
    ELSE a

RECURSIVE LFromInt(_)
LFromInt(n) == IF n = 0 THEN <<>> ELSE <<n % Base>> \o LFromInt(n \div Base)

RECURSIVE LValue(_)
LValue(a) == IF a = <<>> THEN 0 ELSE a[1] + Base * LValue(Tail(a))

RECURSIVE LAddCarry(_, _, _)
LAddCarry(a, b, c) ==
    IF a = <<>> /\ b = <<>> THEN (IF c = 0 THEN <<>> ELSE <<c>>)
    ELSE LET x == IF a = <<>> THEN 0 ELSE a[1]
             y == IF b = <<>> THEN 0 ELSE b[1]
             t == x + y + c
         IN  <<t % Base>> \o LAddCarry(IF a = <<>> THEN a ELSE Tail(a),
                                       IF b = <<>> THEN b ELSE Tail(b), t \div Base)

LAdd(a, b) == LAddCarry(a, b, 0)

\* a >= b
RECURSIVE LGeqFrom(_, _, _)
LGeqFrom(a, b, i) ==
    IF i = 0 THEN TRUE
    ELSE IF a[i] # b[i] THEN a[i] > b[i]
    ELSE LGeqFrom(a, b, i - 1)

LGeq(a, b) == IF Len(a) # Len(b) THEN Len(a) > Len(b) ELSE LGeqFrom(a, b, Len(a))

\* a - b for a >= b
RECURSIVE LSubBorrow(_, _, _)
LSubBorrow(a, b, c) ==
    IF a = <<>> THEN <<>>
    ELSE LET y == IF b = <<>> THEN 0 ELSE b[1]
             t == a[1] - y - c
         IN  <<(t + Base) % Base>> \o LSubBorrow(Tail(a), IF b = <<>> THEN b ELSE Tail(b),
                                                 IF t < 0 THEN 1 ELSE 0)

LSub(a, b) == LTrim(LSubBorrow(a, b, 0))

\* a * k + c for a digit k
RECURSIVE LMulSmall(_, _, _)
LMulSmall(a, k, c) ==
    IF a = <<>> THEN (IF c = 0 THEN <<>> ELSE <<c>>)
    ELSE LET t == a[1] * k + c
         IN  <<t % Base>> \o LMulSmall(Tail(a), k, t \div Base)

RECURSIVE LMul(_, _)
LMul(a, b) ==
    IF a = <<>> \/ b = <<>> THEN <<>>
    ELSE LTrim(LAdd(LMulSmall(a, b[1], 0), <<0>> \o LMul(a, Tail(b))))

\* a * 2^k
LShl(a, k) ==
    IF a = <<>> THEN <<>>
    ELSE [i \in 1..(k \div DigitBits) |-> 0] \o LMulSmall(a, Pow2(k % DigitBits), 0)

\* a \div 2^k
LShr(a, k) ==
    LET skip == k \div DigitBits
        s == Pow2(k % DigitBits)
        digit(j) == IF j > Len(a) THEN 0 ELSE a[j]
    IN  IF skip >= Len(a) THEN <<>>
        ELSE LTrim([j \in 1..(Len(a) - skip) |->
                 (digit(j + skip) \div s) + (digit(j + skip + 1) % s) * (Base \div s)])

\* a % 2^k = 0
LLowZero(a, k) ==
    /\ \A j \in 1..Min(Len(a), k \div DigitBits) : a[j] = 0
    /\ (k \div DigitBits) < Len(a) => a[(k \div DigitBits) + 1] % Pow2(k % DigitBits) = 0

\* The binary digit of a at position i, counted from 1 at the low end.
LBit(a, i) ==
    LET j == ((i - 1) \div DigitBits) + 1
    IN  IF j > Len(a) THEN 0 ELSE (a[j] \div Pow2((i - 1) % DigitBits)) % 2

LBitLength(a) == IF a = <<>> THEN 0 ELSE DigitBits * (Len(a) - 1) + BitLength(a[Len(a)])

\* The largest digit q in lo..hi with q * d <= r, given lo * d <= r.
RECURSIVE LQuotient(_, _, _, _)
LQuotient(r, d, lo, hi) ==
    IF lo = hi THEN lo
    ELSE LET mid == (lo + hi + 1) \div 2
         IN  IF LGeq(r, LMulSmall(d, mid, 0)) THEN LQuotient(r, d, mid, hi)
             ELSE LQuotient(r, d, lo, mid - 1)

\* The quotient and the remainder of n by d, digit by digit from the top.
RECURSIVE LDivFrom(_, _, _, _, _)
LDivFrom(n, d, i, r, q) ==
    IF i = 0 THEN [q |-> LTrim(q), r |-> r]
    ELSE LET r2 == LTrim(<<n[i]>> \o r)
             digit == LQuotient(r2, d, 0, Base - 1)
         IN  LDivFrom(n, d, i - 1, LSub(r2, LMulSmall(d, digit, 0)), <<digit>> \o q)

LDivMod(n, d) == LDivFrom(n, d, Len(n), <<>>, <<>>)

Float(neg, man, exp) == [neg |-> neg, man |-> man, exp |-> exp]

\* A float as the sign, the odd (or zero) natural and the exponent of its value.
FNormal(x) ==
    IF x.man = <<>> THEN Float(FALSE, <<>>, 0)
    ELSE LET zeros == CHOOSE k \in 0..(LBitLength(x.man) - 1) :
                          LBit(x.man, k + 1) = 1 /\ LLowZero(x.man, k)
         IN  Float(x.neg, LShr(x.man, zeros), x.exp + zeros)

\* The value man * 2^exp (with more below it if `sticky`) rounded to p
\* significant bits.
FRound(neg, man, exp, sticky, p) ==
    IF LBitLength(man) <= p THEN FNormal(Float(neg, man, exp))
    ELSE LET drop == LBitLength(man) - p
             kept == LShr(man, drop)
             below == sticky \/ ~LLowZero(man, drop - 1)
             up == LBit(man, drop) = 1 /\ (below \/ LBit(kept, 1) = 1)
         IN  FNormal(Float(neg, IF up THEN LAdd(kept, <<1>>) ELSE kept, exp + drop))

FFromInt(n) == FNormal(Float(n < 0, LFromInt(IF n < 0 THEN 0 - n ELSE n), 0))

FMul(x, y, p) == FRound(x.neg # y.neg, LMul(x.man, y.man), x.exp + y.exp, FALSE, p)

FDiv(x, y, p) ==
    LET k == p + 2 + LBitLength(y.man)
        qr == LDivMod(LShl(x.man, k), y.man)
    IN  FRound(x.neg # y.neg, qr.q, x.exp - y.exp - k, qr.r # <<>>, p)

\* x + y exactly
FSum(x, y) ==
    LET e == Min(x.exp, y.exp)
        a == LShl(x.man, x.exp - e)
        b == LShl(y.man, y.exp - e)
    IN  IF x.neg = y.neg THEN Float(x.neg, LAdd(a, b), e)
        ELSE IF LGeq(a, b) THEN Float(x.neg, LSub(a, b), e)
        ELSE Float(y.neg, LSub(b, a), e)

FAdd(x, y, p) == LET s == FSum(x, y) IN FRound(s.neg, s.man, s.exp, FALSE, p)

FNeg(x) == FNormal(Float(~x.neg, x.man, x.exp))
FAbs(x) == Float(FALSE, x.man, x.exp)
FSub(x, y, p) == FAdd(x, FNeg(y), p)

\* x <= y
FLeq(x, y) == LET d == FSum(y, FNeg(x)) IN d.man = <<>> \/ ~d.neg

\* astype(int16), astype(int32): the integer toward zero
FTruncate(x) ==
    LET mag == IF x.exp >= 0 THEN LValue(LShl(x.man, x.exp))
               ELSE LValue(LShr(x.man, 0 - x.exp))
    IN  IF x.neg THEN 0 - mag ELSE mag

\* np.rint: the nearest integer, ties to even
FRint(x) ==
    LET t == FTruncate(FAbs(x))
        twice == FNormal(FSum(FAbs(x), FSum(FAbs(x), FFromInt(0 - 2 * t))))
        one == FFromInt(1)
        up == IF twice = one THEN t % 2 = 1 ELSE ~FLeq(twice, one)
        mag == IF up THEN t + 1 ELSE t
    IN  IF x.neg THEN 0 - mag ELSE mag

-----------------------------------------------------------------------------
(* The round trip: a file is read by a Reader, converted with to_writer,    *)
(* written with Writer.write and read back.  One point and one analog       *)
(* sample of a frame are followed; in an integer file they are 16-bit       *)
(* words, in a float file IEEE singles.                                     *)

\* The float32 nearest to n / d.
Single(n, d) == FDiv(FFromInt(n), FFromInt(d), SinglePrecision)

FZero == FFromInt(0)
FOne == FFromInt(1)

\* The files read: abs(POINT:SCALE), the x word of the point, its fourth
\* word (-1, or the residual byte below the camera byte), the analog words
\* of its channels (none or one), ANALOG:OFFSET, ANALOG:SCALE,
\* ANALOG:GEN_SCALE and the frame count.  A float file holds a tenth of the
\* x word and of the analog word as singles, and the fourth word as a single.
InScaleMags == {Single(3, 10), Single(1, 2)}
InPointWords == {-30, 0, 1, 15}
InLastWords == {-1, 0, 3 + 256 * 5}
InAnalogWords == {<<>>, <<-2>>, <<0>>, <<1>>, <<3>>}
InOffsets == {0, 1}
InAnalogScales == {FFromInt(49), Single(1, 2)}
InGenScales == {FOne, Single(1, 10)}
InFrameCounts == {1, 3}

\* The value of a word of the given file.
Sample(is_float, word) == IF is_float THEN Single(word, 10) ELSE word

\* last_word & mask, on the two's complement of last_word
BitAnd(word, low, width) == ((word % Pow2(low + width)) \div Pow2(low))

\* Manager.get_analog_transform: the scale of a channel
analog_scales(scale, gen_scale) == FMul(scale, gen_scale, DoublePrecision)

\* Reader.read_frames: the point and the analog sample of a frame, from
\* the words of the file.
read_frame(is_float, scale_mag, raw, offset, scales) ==
    LET x == IF is_float THEN raw.x
             ELSE FMul(FFromInt(raw.x), scale_mag, SinglePrecision)
        last_word == IF is_float THEN FTruncate(raw.last) ELSE raw.last
        residual_byte == BitAnd(last_word, 0, 8)
        camera_byte == BitAnd(last_word, 8, 7)
        invalid == last_word < 0
        sample(i) == IF is_float THEN raw.analog[i] ELSE FFromInt(raw.analog[i])
    IN  [x |-> x,
         residual |-> IF invalid THEN FFromInt(-1)
                      ELSE FMul(FFromInt(residual_byte), scale_mag, SinglePrecision),
         camera |-> camera_byte,
         analog |-> [i \in DOMAIN raw.analog |->
                        FMul(FSub(sample(i), FFromInt(offset), DoublePrecision),
                             scales, DoublePrecision)]]

\* struct.pack('<f', value), astype(float32): the single nearest to a float
pack_float(value) == FRound(value.neg, value.man, value.exp, FALSE, SinglePrecision)

\* Writer._write_frames: the words written for a frame, the first of the
\* file (the row of an invalid point holds zeros).
write_frame(is_float, scale_mag, frame, offset, scales) ==
    LET valid == FLeq(FZero, frame.residual)
        point_scale == IF is_float THEN FOne ELSE scale_mag
        x == FDiv(frame.x, point_scale, SinglePrecision)
        last == (FRint(FDiv(frame.residual, scale_mag, SinglePrecision)) % 256)
                    + 256 * frame.camera
        analog_scales_inv == FDiv(FOne, scales, DoublePrecision)
        analog(i) == FAdd(FMul(frame.analog[i], analog_scales_inv, DoublePrecision),
                          FFromInt(offset), DoublePrecision)
    IN  [x |-> IF is_float THEN (IF valid THEN x ELSE FZero)
               ELSE (IF valid THEN FTruncate(x) ELSE 0),
         last |-> IF is_float THEN FFromInt(IF valid THEN last ELSE -1)
                  ELSE (IF valid THEN last ELSE -1),
         analog |-> [i \in DOMAIN frame.analog |->
                        IF is_float THEN pack_float(analog(i)) ELSE FTruncate(analog(i))]]

NoFrame == [x |-> FZero, residual |-> FZero, camera |-> 0, analog |-> <<>>]
NoRaw == [x |-> 0, last |-> 0, analog |-> <<>>]
NoTrip == [stage |-> "none", is_float |-> FALSE, scale_mag |-> FZero, offset |-> 0,
           scale |-> FZero, gen_scale |-> FZero, m |-> NewMetadata, raw |-> NoRaw,
           frame |-> NoFrame, nframes |-> 0,
           m2 |-> NewMetadata, analog_used2 |-> 0, scale_mag2 |-> FZero, raw2 |-> NoRaw, frame2 |-> NoFrame]

\* A file as a Reader holds it after construction.
InTrips ==
    { [NoTrip EXCEPT !.stage = "reader", !.is_float = fl, !.scale_mag = sm, !.offset = o,
                     !.scale = sc, !.gen_scale = gs,
                     !.m = Metadata(1, n, Absent, Absent, Absent, ParamValue(2, PackU16(n)),
                                    1, ParamValue(2, PackU16(1))),
                     !.raw = [x |-> Sample(fl, x), last |-> IF fl THEN FFromInt(l) ELSE l,
                              analog |-> [i \in DOMAIN a |-> Sample(fl, a[i])]]] :
        fl \in BOOLEAN, sm \in InScaleMags, o \in InOffsets, sc \in InAnalogScales,
        gs \in InGenScales, n \in InFrameCounts, x \in InPointWords, l \in InLastWords,
        a \in InAnalogWords }

\* Reader.to_writer(), Writer.from_reader(reader) in the mode 'consume': the
\* Writer takes the header and the groups and every frame that read_frames
\* yields.
FromReader ==
    /\ trip.stage = "reader"
    /\ trip' = [trip EXCEPT
                  !.stage = "writer",
                  !.frame = read_frame(trip.is_float, trip.scale_mag, trip.raw, trip.offset,
                                       analog_scales(trip.scale, trip.gen_scale)),
                  !.nframes = frame_count(trip.m)]
    /\ UNCHANGED notTrip

\* Writer.write(handle)
WriteFile ==
    /\ trip.stage = "writer"
    /\ trip.nframes > 0
    /\ trip' = [trip EXCEPT
                  !.stage = "written",
                  !.m2 = write(trip.m, trip.nframes, point_used(trip.m)),
                  !.analog_used2 = Len(trip.frame.analog),
                  !.scale_mag2 = pack_float(trip.scale_mag),
                  !.raw2 = write_frame(trip.is_float, trip.scale_mag, trip.frame, trip.offset,
                                       analog_scales(trip.scale, trip.gen_scale))]
    /\ UNCHANGED notTrip

\* Reader(handle) on the written file, and read_frames()
ReadBack ==
    /\ trip.stage = "written"
    /\ trip' = [trip EXCEPT
                  !.stage = "reread",
                  !.frame2 = read_frame(trip.is_float, trip.scale_mag2, trip.raw2, trip.offset,
                                        analog_scales(trip.scale, trip.gen_scale))]
    /\ UNCHANGED notTrip


-----------------------------------------------------------------------------
(* The derived quantities of a Manager: its properties point_rate,          *)
(* point_scale, point_used, analog_used, analog_rate, analog_per_frame and  *)
(* first_frame, read from the parameters or from the header.                *)

\* The IEEE single in the two words of a 4-byte parameter.
SingleOfWords(words) ==
    LET hi == words[2]
        exp == (hi % 32768) \div 128
        man == (hi % 128) * 65536 + words[1]
    IN  IF exp = 0 THEN FZero
        ELSE FNormal(Float(hi \div 32768 = 1, LFromInt(Pow2(23) + man), exp - 150))

\* The outcome of reading a property or a parameter value.
Value(v) == [res |-> "ok", v |-> v]
Raised(exception) == [res |-> exception, v |-> FZero]

\* ParamReadonly.float_value of a parameter of 4 bytes per element or less.
float_value(param) ==
    IF param.bpe = 4 THEN Value(SingleOfWords(param.words))
    ELSE Raised("AttributeError")

\* Manager.get_float(key): Manager.get(key) is None for an absent parameter.
get_float(param) == IF param = Absent THEN Raised("AttributeError") ELSE float_value(param)

\* Manager.get_uint16(key), Manager.get_uint32(key)
get_uint16(param) ==
    IF param = Absent THEN Raised("AttributeError") ELSE Value(FFromInt(uint16_value(param)))
get_uint32(param) ==
    IF param = Absent THEN Raised("AttributeError") ELSE Value(FFromInt(uint32_value(param)))

\* try: return <read> except AttributeError: return <fallback>
TryExcept(attempt, fallback) == IF attempt.res = "AttributeError" THEN fallback ELSE attempt

\* The header fields and the parameters POINT:RATE, POINT:SCALE, POINT:USED,
\* ANALOG:USED, ANALOG:RATE and TRIAL:ACTUAL_START_FIELD of a Manager.
Manager(h, rate, scale, used, analog_used, analog_rate, start) ==
    [h |-> h, rate |-> rate, scale |-> scale, used |-> used, analog_used |-> analog_used,
     analog_rate |-> analog_rate, start |-> start]

\* Manager.point_rate, point_scale, point_used
mgr_point_rate(m) == TryExcept(get_float(m.rate), Value(m.h.frame_rate))
mgr_point_scale(m) == TryExcept(get_float(m.scale), Value(m.h.scale_factor))
mgr_point_used(m) == TryExcept(get_uint16(m.used), Value(FFromInt(m.h.point_count)))

\* Manager.analog_used
mgr_analog_used(m) ==
    TryExcept(get_uint16(m.analog_used),
              IF m.h.analog_per_frame > 0
              THEN Value(FFromInt(m.h.analog_count \div m.h.analog_per_frame))
              ELSE Value(FZero))

\* Manager.analog_rate
mgr_analog_rate(m) ==
    TryExcept(get_float(m.analog_rate),
              LET rate == mgr_point_rate(m)
              IN  Value(FMul(FFromInt(m.h.analog_per_frame), rate.v, DoublePrecision)))

\* Manager.analog_per_frame: int(self.analog_rate / self.point_rate); the
\* division is one of singles when both rates are parameters.  A zero
\* point_rate makes the division or the conversion to int raise.
mgr_analog_per_frame(m) ==
    LET analog == mgr_analog_rate(m)
        point == mgr_point_rate(m)
        precision == IF get_float(m.analog_rate).res = "ok" /\ get_float(m.rate).res = "ok"
                     THEN SinglePrecision ELSE DoublePrecision
    IN  IF point.v = FZero THEN Raised("ArithmeticError")
        ELSE Value(FFromInt(FTruncate(FDiv(analog.v, point.v, precision))))

\* Manager.first_frame
mgr_first_frame(m) ==
    IF m.start # Absent THEN Value(FFromInt(uint32_value(m.start)))
    ELSE Value(FFromInt(m.h.first_frame))

\* The property of the given name.
Property(m, name) ==
    CASE name = "point_rate" -> mgr_point_rate(m)
      [] name = "point_scale" -> mgr_point_scale(m)
      [] name = "point_used" -> mgr_point_used(m)
      [] name = "analog_used" -> mgr_analog_used(m)
      [] name = "analog_rate" -> mgr_analog_rate(m)
      [] name = "analog_per_frame" -> mgr_analog_per_frame(m)
      [] name = "first_frame" -> mgr_first_frame(m)

\* The Managers read: header fields as Header.read leaves them, float
\* parameters as singles (POINT:RATE also as a 2-byte integer), counts as
\* uint16 and the start field as two uint16 words.
InRateParams == {Absent, ParamValue(4, PackF32(30)), ParamValue(4, PackF32(50)),
                 ParamValue(2, PackU16(30))}
InScaleParams == {Absent, ParamValue(4, F32Words(0, 126, 0)), ParamValue(4, F32Words(1, 127, 0))}
InUsedParams == {Absent, ParamValue(2, PackU16(2))}
InAnalogUsedParams == {Absent, ParamValue(2, PackU16(3))}
InAnalogRateParams == {Absent, ParamValue(4, PackF32(200)), ParamValue(4, PackF32(90))}
InStartParams == {Absent, ParamValue(2, PackU32(70000))}
InManagerHeaders ==
    {[frame_rate |-> FFromInt(fr), scale_factor |-> FFromInt(-1), point_count |-> 5,
      analog_count |-> 8, analog_per_frame |-> apf, first_frame |-> 1] :
        fr \in {0, 60}, apf \in {0, 4}}
InManagers ==
    {[m |-> Manager(h, r, sc, u, au, ar, st), read |-> "none", out |-> Value(FZero)] :
        h \in InManagerHeaders, r \in InRateParams, sc \in InScaleParams, u \in InUsedParams,
        au \in InAnalogUsedParams, ar \in InAnalogRateParams, st \in InStartParams}

NoManager ==
    [m |-> Manager([frame_rate |-> FFromInt(60), scale_factor |-> FFromInt(-1),
                    point_count |-> 50, analog_count |-> 0, analog_per_frame |-> 0,
                    first_frame |-> 1], Absent, Absent, Absent, Absent, Absent, Absent),
     read |-> "none", out |-> Value(FZero)]

\* A property of the Manager is read.
ReadProperty(name) ==
    /\ mgr' = [mgr EXCEPT !.read = name, !.out = Property(mgr.m, name)]
    /\ UNCHANGED notMgr

ReadPointRate == mgr.read = "none" /\ ReadProperty("point_rate")
ReadPointScale == mgr.read = "none" /\ ReadProperty("point_scale")
ReadPointUsed == mgr.read = "none" /\ ReadProperty("point_used")
ReadAnalogUsed == mgr.read = "none" /\ ReadProperty("analog_used")
ReadAnalogRate == mgr.read = "none" /\ ReadProperty("analog_rate")
ReadAnalogPerFrame == mgr.read = "none" /\ ReadProperty("analog_per_frame")
ReadFirstFrame == mgr.read = "none" /\ ReadProperty("first_frame")

-----------------------------------------------------------------------------
(* The construction of a Reader: the header is read, then the processor     *)
(* byte of the parameter section, then the group and parameter records.     *)

PROCESSOR_INTEL == 84
PROCESSOR_DEC == 85
PROCESSOR_MIPS == 86
MAGIC == 80

\* The number of records of a parameter section.
MaxRecords == 2

\* The files opened: the magic byte, the processor byte and the number of
\* group and parameter records; debug tells whether Python runs with
\* assertions.
InMagic == {0, MAGIC, MAGIC + 1}
InProcessor == {0, PROCESSOR_INTEL - 1, PROCESSOR_INTEL, PROCESSOR_DEC, PROCESSOR_MIPS,
                PROCESSOR_MIPS + 1}
Opening(debug, magic, processor, records) ==
    [debug |-> debug, magic |-> magic, processor |-> processor, records |-> records,
     pc |-> "header", parsed |-> 0, res |-> "none"]
NoOpen == Opening(TRUE, MAGIC, PROCESSOR_INTEL, 0)

\* Header.read: assert magic == 80
header_read(o) ==
    IF o.debug /\ o.magic # MAGIC THEN [o EXCEPT !.pc = "raised", !.res = "AssertionError"]
    ELSE o

\* Header._processor_convert: float_unpack is bound in the branches for DEC,
\* Intel and MIPS only, and then used; the MIPS branch reads the header again.
processor_convert(o) ==
    IF o.processor = PROCESSOR_DEC \/ o.processor = PROCESSOR_INTEL THEN o
    ELSE IF o.processor = PROCESSOR_MIPS THEN header_read(o)
    ELSE [o EXCEPT !.pc = "raised", !.res = "UnboundLocalError"]

\* Reader.__init__: super().__init__(Header(handle))
OpenHeader ==
    /\ opn.pc = "header"
    /\ opn' = LET o == header_read(opn)
              IN  IF o.pc = "raised" THEN o ELSE [o EXCEPT !.pc = "processor"]
    /\ UNCHANGED notOpn

\* Reader.__init__: the processor byte is read, DataTypes(processor) is made
\* and the header converted.
OpenProcessor ==
    /\ opn.pc = "processor"
    /\ opn' = LET o == processor_convert(opn)
              IN  IF o.pc = "raised" THEN o ELSE [o EXCEPT !.pc = "records"]
    /\ UNCHANGED notOpn

\* Reader.__init__: one group or parameter record is parsed.
OpenRecord ==
    /\ opn.pc = "records"
    /\ opn.parsed < opn.records
    /\ opn' = [opn EXCEPT !.parsed = opn.parsed + 1]
    /\ UNCHANGED notOpn

\* Reader.__init__: the end of the parameter section.
OpenEnd ==
    /\ opn.pc = "records"
    /\ opn.parsed = opn.records
    /\ opn' = [opn EXCEPT !.pc = "constructed", !.res = "ok"]
    /\ UNCHANGED notOpn

-----------------------------------------------------------------------------
(* Reader.read_frames(copy, analog_transform, check_nan): the arrays that   *)
(* the generator yields, as objects with contents.                          *)

MaxFrames == 2

\* A coordinate that is not finite, as np.isfinite tells.
NaN == [neg |-> FALSE, man |-> <<>>, exp |-> 1]
isfinite(v) == v # NaN

\* The words of the frames of a file: one point and the analog samples.
InFrameWords(is_float, has_analog) ==
    { [x |-> x, last |-> IF is_float THEN FFromInt(l) ELSE l,
       analog |-> [i \in DOMAIN a |-> Sample(is_float, a[i])]] :
        x \in IF is_float THEN {Sample(TRUE, 1), Sample(TRUE, 15), NaN} ELSE {1, 15},
        l \in {-1, 3 + 256 * 5},
        a \in IF has_analog THEN {<<1>>, <<3>>} ELSE {<<>>} }
InFrameFiles(is_float, has_analog) ==
    UNION { [1..n -> InFrameWords(is_float, has_analog)] : n \in 1..MaxFrames }

\* Reader.read_frames, the check of the rows decoded: a point with a
\* coordinate that is not finite is set to zero and marked invalid when
\* check_nan is True.
check_rows(decoded, check_nan) ==
    LET is_nan == ~isfinite(decoded.x)
        invalid == check_nan /\ is_nan
    IN  [x |-> IF invalid THEN FZero ELSE decoded.x,
         residual |-> IF invalid THEN FFromInt(-1) ELSE decoded.residual,
         camera |-> decoded.camera,
         analog |-> decoded.analog]

\* Reader.read_frames, the body of the loop: the row of the point and the
\* analog samples of one frame. The argument analog_transform is not read.
frame_rows(is_float, scale_mag, raw, offset, scales, analog_transform, check_nan) ==
    check_rows(read_frame(is_float, scale_mag, raw, offset, scales), check_nan)

\* The row of the point of a frame, an array of five values of which the
\* model keeps three.
Row(frame) == [x |-> frame.x, residual |-> frame.residual, camera |-> frame.camera]

\* The generator: its arguments, the file, the number of frames yielded, the
\* point arrays and the analog arrays allocated so far with their contents,
\* and for every frame yielded the two arrays of the tuple.
Iteration(copy, analog_transform, check_nan, is_float, offset, frames) ==
    [copy |-> copy, analog_transform |-> analog_transform, check_nan |-> check_nan,
     is_float |-> is_float, offset |-> offset, file |-> frames,
     pc |-> "created", points |-> <<>>, analogs |-> <<>>, yielded |-> <<>>]
NoIteration == Iteration(TRUE, TRUE, TRUE, FALSE, 0, <<>>)
InIterations(is_float, has_analog) ==
    { Iteration(copy, analog_transform, check_nan, is_float, offset, frames) :
        copy \in BOOLEAN, analog_transform \in BOOLEAN, check_nan \in BOOLEAN,
        offset \in InOffsets, frames \in InFrameFiles(is_float, has_analog) }

\* The frame that read_frames decodes from the words of frame k of the file.
FrameOf(g, k) ==
    frame_rows(g.is_float, Single(1, 2), g.file[k], g.offset,
               analog_scales(FFromInt(49), FOne), g.analog_transform, g.check_nan)

\* points = np.zeros((self.point_used, 5), np.float32) and
\* analog = np.array([], float): the two arrays made before the loop.
POINTS == 1
ANALOG == 1

\* yield frame_no, points.copy(), analog  /  yield frame_no, points, analog:
\* the point arrays after the yield and the one yielded.
output_points_shared(copy, arrays) == [arrays |-> arrays, yielded |-> POINTS]
output_points(copy, arrays) ==
    IF copy THEN [arrays |-> Append(arrays, arrays[POINTS]), yielded |-> Len(arrays) + 1]
    ELSE [arrays |-> arrays, yielded |-> POINTS]

\* The generator is resumed for the first time: the code before the loop.
BeginFrames ==
    /\ itr.pc = "created"
    /\ itr' = [itr EXCEPT !.pc = "loop",
                          !.points = <<Row(NoFrame)>>,
                          !.analogs = <<<<>>>>]
    /\ UNCHANGED notItr

\* The frame decoded is put into the buffer points, the analog samples into a
\* new array when there are any, and the tuple is yielded.
yield_frame(g, frame) ==
    LET out == output_points(g.copy, [g.points EXCEPT ![POINTS] = Row(frame)])
        N_analog == Len(frame.analog)
        analogs == IF N_analog > 0 THEN Append(g.analogs, frame.analog) ELSE g.analogs
    IN  [g EXCEPT !.points = out.arrays,
                  !.analogs = analogs,
                  !.yielded = Append(g.yielded,
                      [points |-> out.yielded,
                       analog |-> IF N_analog > 0 THEN Len(analogs) ELSE ANALOG])]

\* One pass of the loop up to its yield.
NextFrame ==
    /\ itr.pc = "loop"
    /\ Len(itr.yielded) < Len(itr.file)
    /\ itr' = yield_frame(itr, FrameOf(itr, Len(itr.yielded) + 1))
    /\ UNCHANGED notItr

\* The loop ends after the last frame.
EndFrames ==
    /\ itr.pc = "loop"
    /\ Len(itr.yielded) = Len(itr.file)
    /\ itr' = [itr EXCEPT !.pc = "exhausted"]
    /\ UNCHANGED notItr

-----------------------------------------------------------------------------
(* Writer.add_frames: the buffer of frames of a Writer.                     *)

MaxBuffered == 4
MaxBatch == 2

\* The shapes of the point arrays and of the analog arrays given.
InPointShapes == {<<1, 5>>, <<2, 5>>}
InAnalogShapes == {<<3, 1>>, <<3, 2>>}

\* A frame as given to add_frames: a tuple of arity arrays, of which the
\* first is the point array and the second the analog array; the model
\* keeps their shapes.
Frame(point, analog, arity) == [point |-> point, analog |-> analog, arity |-> arity]
InFrameTuples(arity) == {Frame(p, a, arity) : p \in InPointShapes, a \in InAnalogShapes}

\* The argument frames: a single frame, or a sequence of frames.
InFramesArgs ==
    {[single |-> TRUE, items |-> <<f>>] : f \in InFrameTuples(2)}
    \cup UNION { {[single |-> FALSE, items |-> fs] : fs \in [1..n -> InFrameTuples(arity)]} :
                    n \in 1..MaxBatch, arity \in {2, 3} }

\* The argument index: None, or a position of the buffer.
NoIndex == [given |-> FALSE, i |-> 0]
Index(i) == [given |-> TRUE, i |-> i]

\* np.shape(frames), of a tuple of arrays of different shapes and of a
\* sequence of such tuples.
np_shape(arg) ==
    IF arg.single THEN <<arg.items[1].arity>>
    ELSE <<Len(arg.items), arg.items[1].arity>>

\* Writer.add_frames(frames, index): the result and the buffer after it.
add_frames(buffer, arg, index) ==
    LET first == np_shape(arg)
        frames == arg.items
        sh == IF Len(first) < 2 THEN <<1, first[1]>> ELSE first
        mismatch ==
            /\ Len(buffer) > 0
            /\ \E k \in DOMAIN frames :
                \/ frames[k].point # buffer[1].point
                \/ frames[k].analog # buffer[1].analog
    IN  IF mismatch THEN [res |-> "ValueError", frames |-> buffer]
        ELSE IF sh[2] # 2 THEN [res |-> "ValueError", frames |-> buffer]
        ELSE IF index.given
        THEN [res |-> "ok",
              frames |-> SubSeq(buffer, 1, index.i) \o frames
                            \o SubSeq(buffer, index.i + 1, Len(buffer))]
        ELSE [res |-> "ok", frames |-> buffer \o frames]

\* The buffer, and the last call: the buffer before it, its arguments and
\* its result.
Buffer(frames, pre, arg, index, res) ==
    [frames |-> frames, pre |-> pre, arg |-> arg, index |-> index, res |-> res]
NoBuffer == Buffer(<<>>, <<>>, <<>>, NoIndex, "none")

\* writer.add_frames(frames)
AppendFrames ==
    /\ \E arg \in InFramesArgs :
        /\ Len(wbuf.frames) + Len(arg.items) <= MaxBuffered
        /\ LET out == add_frames(wbuf.frames, arg, NoIndex)
           IN  wbuf' = Buffer(out.frames, wbuf.frames, arg.items, NoIndex, out.res)
    /\ UNCHANGED notBuf

\* writer.add_frames(frames, index=i)
InsertFrames ==
    /\ \E arg \in InFramesArgs, i \in 0..Len(wbuf.frames) :
        /\ Len(wbuf.frames) + Len(arg.items) <= MaxBuffered
        /\ LET out == add_frames(wbuf.frames, arg, Index(i))
           IN  wbuf' = Buffer(out.frames, wbuf.frames, arg.items, Index(i), out.res)
    /\ UNCHANGED notBuf

-----------------------------------------------------------------------------
(* Header.encode_events: the events of the header.                          *)

MaxEvents == 20

\* The names that the module header binds by its import statements.
HeaderImports == {"sys", "struct", "np", "UNPACK_FLOAT_IEEE", "DEC_to_IEEE"}

\* The number of events that the event block holds.
EventSlots == 18

\* Header.encode_events(events) on a header with event_count events, for n
\* pairs (time, label): the loop breaks when i > 17, after a call of
\* warnings.warn; i is bound after the loop when the loop ran.
encode_events(event_count, n) ==
    LET breaks == n > EventSlots
        i == IF breaks THEN EventSlots ELSE n - 1
        write_count == Min(i + 1, EventSlots)
    IN  IF breaks /\ "warnings" \notin HeaderImports
        THEN [res |-> "NameError", event_count |-> event_count, warned |-> FALSE]
        ELSE IF n = 0
        THEN [res |-> "UnboundLocalError", event_count |-> event_count, warned |-> FALSE]
        ELSE [res |-> "ok", event_count |-> write_count, warned |-> breaks]

\* A header with event_count events and a call with n pairs.
Encoding(event_count, n) ==
    [n |-> n, before |-> event_count, pc |-> "call",
     out |-> [res |-> "none", event_count |-> event_count, warned |-> FALSE]]
NoEncoding == Encoding(0, 0)

\* header.encode_events(events)
EncodeEvents ==
    /\ enc.pc = "call"
    /\ enc' = [enc EXCEPT !.pc = "left", !.out = encode_events(enc.before, enc.n)]
    /\ UNCHANGED notEnc

-----------------------------------------------------------------------------
(* Writer.from_reader(reader, conversion).                                  *)

MaxSourceFrames == 2
MaxSourceEvents == 2

\* The values given as conversion; "None" is the value None.
InConversions ==
    {"None", "consume", "copy", "copy_metadata", "copy_shallow", "copy_header",
     "shallow_copy", "deep"}

\* The modes of from_reader.
is_header_only(conversion) == conversion = "copy_header"
is_meta_copy(conversion) == conversion = "copy_metadata"
is_meta_only(conversion) == is_header_only(conversion) \/ is_meta_copy(conversion)
is_consume(conversion) == conversion = "consume" \/ conversion = "None"
is_shallow_copy(conversion) == conversion = "shallow_copy" \/ is_header_only(conversion)
is_deep_copy(conversion) == conversion = "copy" \/ is_meta_copy(conversion)

\* DataTypes.is_ieee
is_ieee(processor) == processor = PROCESSOR_INTEL

\* A call of from_reader on a Reader of a file of the given processor format,
\* with events displayed events in its header and nframes frames, which holds
\* the parameters POINT:LABELS and ANALOG:LABELS; groups tells what the
\* Writer holds as groups, frames how many frames it holds.
Converting(conversion, processor, events, nframes) ==
    [conversion |-> conversion, processor |-> processor, events |-> events,
     nframes |-> nframes, pc |-> "verify", res |-> "none", groups |-> "none", frames |-> 0]
NoConversion == Converting("None", PROCESSOR_INTEL, 0, 0)

\* from_reader: the mode is verified.
ConvertVerify ==
    /\ conv.pc = "verify"
    /\ conv' =
        IF ~(is_consume(conv.conversion) \/ is_shallow_copy(conv.conversion)
                \/ is_deep_copy(conv.conversion))
        THEN [conv EXCEPT !.pc = "raised", !.res = "ValueError"]
        ELSE IF ~is_ieee(conv.processor) /\ ~is_shallow_copy(conv.conversion)
        THEN [conv EXCEPT !.pc = "raised", !.res = "ValueError"]
        ELSE [conv EXCEPT !.pc = "metadata"]
    /\ UNCHANGED notConv

\* from_reader: the header and the groups are taken, copied, or the header
\* copied with its events encoded again and a minimal set of parameters set.
ConvertMetadata ==
    /\ conv.pc = "metadata"
    /\ conv' =
        IF is_consume(conv.conversion)
        THEN [conv EXCEPT !.pc = "frames", !.groups = "taken"]
        ELSE IF is_deep_copy(conv.conversion)
        THEN [conv EXCEPT !.pc = "frames", !.groups = "copied"]
        ELSE LET out == encode_events(conv.events, conv.events)
             IN  IF out.res = "ok" THEN [conv EXCEPT !.pc = "frames", !.groups = "minimal"]
                 ELSE [conv EXCEPT !.pc = "raised", !.res = out.res]
    /\ UNCHANGED notConv

\* from_reader: one frame that read_frames yields is added to the Writer.
ConvertFrame ==
    /\ conv.pc = "frames"
    /\ ~is_meta_only(conv.conversion)
    /\ conv.frames < conv.nframes
    /\ conv' = [conv EXCEPT !.frames = conv.frames + 1]
    /\ UNCHANGED notConv

\* from_reader: return writer
ConvertEnd ==
    /\ conv.pc = "frames"
    /\ is_meta_only(conv.conversion) \/ conv.frames = conv.nframes
    /\ conv' = [conv EXCEPT !.pc = "returned", !.res = "ok"]
    /\ UNCHANGED notConv

-----------------------------------------------------------------------------
(* The array accessors of a parameter: ParamData._as_array,                 *)
(* ParamReadonly.bytes_array and string_array.                              *)

MaxDimension == 3
MaxDimensions == 3

\* The dimensions of the parameters read: up to MaxDimensions of them, and
\* four small ones.
InDimensions ==
    UNION { [1..n -> 1..MaxDimension] : n \in 1..MaxDimensions } \cup [1..4 -> 1..2]

Reverse(s) == [k \in 1..Len(s) |-> s[Len(s) + 1 - k]]
RECURSIVE prod(_)
prod(s) == IF s = <<>> THEN 1 ELSE s[1] * prod(Tail(s))

\* np.cumprod(s)
cumprod(s) == [k \in 1..Len(s) |-> prod(SubSeq(s, 1, k))]

\* The bytes of a parameter of the given dimensions and element width, all
\* of them letters, no two neighbours equal.
Letters == <<"A", "B", "C", "D", "E", "F", "G">>
ParamBytes(dimensions, bytes_per_element) ==
    [k \in 1..(bytes_per_element * prod(dimensions)) |-> 65 + ((k - 1) % Len(Letters))]

\* np.frombuffer(bytes, dtype=dtype) for an unsigned little-endian dtype of
\* the given width.
RECURSIVE unsigned(_)
unsigned(word) == IF word = <<>> THEN 0 ELSE word[1] + 256 * unsigned(Tail(word))
frombuffer(bytes, width) ==
    [k \in 1..(Len(bytes) \div width) |->
        unsigned(SubSeq(bytes, (k - 1) * width + 1, k * width))]

\* np.ndindex(*shape): the indices of an array of the given shape.
ndindex(shape) ==
    {i \in [1..Len(shape) -> 0..(MaxDimension - 1)] : \A k \in 1..Len(shape) : i[k] < shape[k]}

\* The offset of the element at index i in an array of the given shape, laid
\* out in the order of C.
RECURSIVE ravel(_, _)
ravel(i, shape) ==
    IF i = <<>> THEN 0
    ELSE i[Len(i)] + shape[Len(i)] * ravel(SubSeq(i, 1, Len(i) - 1), SubSeq(shape, 1, Len(i) - 1))

\* elems.reshape(shape): an array is its shape and its elements by index.
reshape(elems, shape) ==
    [shape |-> shape, at |-> [i \in ndindex(shape) |-> elems[ravel(i, shape) + 1]]]

\* ParamData._as_array(dtype), for dimensions that are not empty.
as_array_unreversed(bytes, dimensions, width) ==
    reshape(frombuffer(bytes, width), dimensions)
as_array(bytes, dimensions, width) ==
    reshape(frombuffer(bytes, width), Reverse(dimensions))

\* np.sum(np.multiply(i, byte_steps))
RECURSIVE dot(_, _)
dot(i, steps) == IF i = <<>> THEN 0 ELSE i[1] * steps[1] + dot(Tail(i), Tail(steps))

\* ParamReadonly.bytes_array
bytes_array(bytes, dimensions) ==
    IF Len(dimensions) = 1 THEN [shape |-> <<>>, at |-> [i \in {<<>>} |-> bytes]]
    ELSE LET word_len == dimensions[1]
             dims == Reverse(Tail(dimensions))
             byte_steps == Reverse(cumprod(SubSeq(dimensions, 1, Len(dimensions) - 1)))
         IN  [shape |-> dims,
              at |-> [i \in ndindex(dims) |->
                        LET off == dot(i, byte_steps)
                        IN  SubSeq(bytes, off + 1, Min(off + word_len, Len(bytes)))]]

\* DataTypes.decode_string, on bytes that are letters
decode_string(bytes) == [k \in 1..Len(bytes) |-> Letters[bytes[k] - 64]]

\* ParamReadonly.string_array
string_array(bytes, dimensions) ==
    IF Len(dimensions) = 1
    THEN [shape |-> <<1>>, at |-> [i \in {<<0>>} |-> decode_string(bytes)]]
    ELSE LET byte_arr == bytes_array(bytes, dimensions)
         IN  [shape |-> byte_arr.shape,
              at |-> [i \in ndindex(byte_arr.shape) |-> decode_string(byte_arr.at[i])]]

\* A parameter, and the accessor read and the array it returned.
ArrayRead(dimensions, bytes_per_element) ==
    [dimensions |-> dimensions, bytes_per_element |-> bytes_per_element,
     bytes |-> ParamBytes(dimensions, bytes_per_element),
     read |-> "none", out |-> [shape |-> <<>>, at |-> <<>>]]
NoArrayRead == ArrayRead(<<1>>, 1)

\* param.uint8_array, param.uint16_array
ReadNumericArray ==
    /\ arr.read = "none"
    /\ arr' = [arr EXCEPT !.read = "numeric",
                          !.out = as_array(arr.bytes, arr.dimensions, arr.bytes_per_element)]
    /\ UNCHANGED notArr

\* param.bytes_array
ReadBytesArray ==
    /\ arr.read = "none"
    /\ arr' = [arr EXCEPT !.read = "bytes", !.out = bytes_array(arr.bytes, arr.dimensions)]
    /\ UNCHANGED notArr

\* param.string_array
ReadStringArray ==
    /\ arr.read = "none"
    /\ arr' = [arr EXCEPT !.read = "string", !.out = string_array(arr.bytes, arr.dimensions)]
    /\ UNCHANGED notArr

-----------------------------------------------------------------------------
(* Writer.write on the groups of a Writer: the parameter records of the     *)
(* file, in their order, and the file written again after it was read.      *)

\* len(s.encode('utf-8')) of the names and descriptions that the Writer gives
len(s) ==
    CASE s = "POINT" -> 5
      [] s = "ANALOG" -> 6
      [] s = "TRIAL" -> 5
      [] s = "POINT group" -> 11
      [] s = "ANALOG group" -> 12
      [] s = "TRIAL group" -> 11
      [] s = "USED" -> 4
      [] s = "FRAMES" -> 6
      [] s = "LONG_FRAMES" -> 11
      [] s = "DATA_START" -> 10
      [] s = "SCALE" -> 5
      [] s = "RATE" -> 4
      [] s = "UNITS" -> 5
      [] s = "DESCRIPTIONS" -> 12
      [] s = "LABELS" -> 6
      [] s = "GEN_SCALE" -> 9
      [] s = "OFFSET" -> 6
      [] s = "ACTUAL_START_FIELD" -> 18
      [] s = "ACTUAL_END_FIELD" -> 16
      [] s = "Number of point samples" -> 23
      [] s = "Total frame count" -> 17
      [] s = "First data block containing frame samples." -> 42
      [] s = "Point data scaling factor" -> 25
      [] s = "Point data sample rate" -> 22
      [] s = "Units used for point data measurements." -> 39
      [] s = "Channel descriptions." -> 21
      [] s = "Point labels." -> 13
      [] s = "Analog labels." -> 14
      [] s = "Analog channel count" -> 20
      [] s = "Analog samples per second" -> 25
      [] s = "Analog general scale factor" -> 27
      [] s = "Analog channel scale factors" -> 28
      [] s = "Analog channel offsets" -> 22
      [] s = "Actual start frame" -> 18
      [] s = "Actual end frame" -> 16

\* A parameter: ParamData(name, dtypes, desc, bytes_per_element, dimensions,
\* bytes); the bytes of numbers are kept as 16-bit words.
ParamData(name, desc, bytes_per_element, dimensions, bytes) ==
    [name |-> name, desc |-> desc, bytes_per_element |-> bytes_per_element,
     dimensions |-> dimensions, bytes |-> bytes]

\* ParamData.total_bytes, ParamData.binary_size
total_bytes(p) ==
    prod(p.dimensions) * (IF p.bytes_per_element < 0 THEN -p.bytes_per_element
                          ELSE p.bytes_per_element)
param_binary_size(p) ==
    1 + 2 + 1 + len(p.name) + 1 + 1 + Len(p.dimensions) + total_bytes(p) + 1 + len(p.desc)

\* A group: GroupData(dtypes, name, desc) with its parameters in the order
\* of the dict _params.
GroupData(name, desc, parameters) == [name |-> name, desc |-> desc, params |-> parameters]
RECURSIVE SumSizes(_)
SumSizes(ps) == IF ps = <<>> THEN 0 ELSE param_binary_size(ps[1]) + SumSizes(Tail(ps))
group_binary_size(g) == 1 + 1 + len(g.name) + 2 + 1 + len(g.desc) + SumSizes(g.params)

\* name in group
Contains(g, name) == \E k \in DOMAIN g.params : g.params[k].name = name

\* GroupData.remove_param: del self._params[name]
group_remove_param(g, name) ==
    [g EXCEPT !.params = SelectSeq(g.params, LAMBDA p : p.name # name)]

\* GroupData.add_param: the new entry of the dict is its last
group_add_param(g, p) == [g EXCEPT !.params = Append(g.params, p)]

\* Group.set, set_str, set_empty_array: remove_param, KeyError passed over,
\* then add
group_set(g, p) == group_add_param(IF Contains(g, p.name) THEN group_remove_param(g, p.name) ELSE g, p)

\* The groups of a Manager by their numeric keys 1, 2, ..., as listed()
\* gives them. Writer.get_create(label): the key of the group, and the groups.
KeyOf(gs, label) == CHOOSE k \in DOMAIN gs : gs[k].name = label
get_create(gs, label) ==
    IF \E k \in DOMAIN gs : gs[k].name = label THEN gs
    ELSE Append(gs, GroupData(label, IF label = "POINT" THEN "POINT group"
                                     ELSE IF label = "ANALOG" THEN "ANALOG group"
                                     ELSE "TRIAL group", <<>>))

\* self.<label>_group.set(...), on the groups of the Writer
Set(gs, label, p) ==
    LET made == get_create(gs, label)
    IN  [made EXCEPT ![KeyOf(made, label)] = group_set(@, p)]

\* if name not in group: group.add...(name, ...)
SetDefault(gs, label, p) ==
    LET made == get_create(gs, label)
    IN  IF Contains(made[KeyOf(made, label)], p.name) THEN made ELSE Set(made, label, p)

\* elif 'LONG_FRAMES' in group: group.remove_param('LONG_FRAMES')
Remove(gs, label, name) ==
    LET made == get_create(gs, label)
    IN  [made EXCEPT ![KeyOf(made, label)] = group_remove_param(@, name)]

\* Manager.parameter_blocks: _groups holds every group under its numeric key
\* and under its name.
RECURSIVE SumGroups(_)
SumGroups(gs) == IF gs = <<>> THEN 0 ELSE 2 * group_binary_size(gs[1]) + SumGroups(Tail(gs))
parameter_blocks(gs) == (4 + SumGroups(gs) + 511) \div 512

\* The empty parameter that add_empty_array makes, and a string parameter.
EmptyArray(name, desc) == ParamData(name, desc, 0, <<0>>, <<>>)
Spaces(n) == [k \in 1..(2 * n) |-> 32]

\* Writer.set_point_labels(None), set_analog_labels(None), set_start_frame
set_point_labels(gs) == Set(gs, "POINT", EmptyArray("LABELS", "Point labels."))
set_analog_labels(gs) == Set(gs, "ANALOG", EmptyArray("LABELS", "Analog labels."))
writer_set_start_frame(gs, frame) ==
    Set(gs, "TRIAL", ParamData("ACTUAL_START_FIELD", "Actual start frame", 2, <<2>>,
                               PackU32(frame)))

\* Manager.first_frame of a Writer: TRIAL:ACTUAL_START_FIELD, or the
\* first_frame of the header.
writer_first_frame(gs, header_first) ==
    IF \E k \in DOMAIN gs : gs[k].name = "TRIAL" /\ Contains(gs[k], "ACTUAL_START_FIELD")
    THEN LET g == gs[KeyOf(gs, "TRIAL")]
             p == g.params[CHOOSE k \in DOMAIN g.params :
                                g.params[k].name = "ACTUAL_START_FIELD"]
         IN  uint32_value([bpe |-> 2, words |-> p.bytes])
    ELSE header_first

\* Writer.write, the parameters: the groups after them, for nframes frames of
\* ppf points and apf analog channels at the given rates.
write_groups(gs, nframes, ppf, apf, rate, analog_rate, header_first) ==
    LET first == LET f == writer_first_frame(gs, header_first)
                 IN  IF f <= 0 THEN 1 ELSE f
        last == first + nframes - 1
        p1 == Set(gs, "POINT", ParamData("USED", "Number of point samples", 2, <<>>,
                                         PackU16(ppf)))
        p2 == Set(p1, "POINT", ParamData("FRAMES", "Total frame count", 2, <<>>,
                                         PackU16(Min(UINT16_MAX, nframes))))
        p3 == IF nframes >= UINT16_MAX
              THEN Set(p2, "POINT", ParamData("LONG_FRAMES", "Total frame count", 4, <<>>,
                                              PackF32(nframes)))
              ELSE Remove(p2, "POINT", "LONG_FRAMES")
        p4 == Set(p3, "POINT", ParamData("DATA_START",
                        "First data block containing frame samples.", 2, <<>>, PackU16(0)))
        p5 == Set(p4, "POINT", ParamData("SCALE", "Point data scaling factor", 4, <<>>,
                                         F32Words(1, 127, 0)))
        p6 == Set(p5, "POINT", ParamData("RATE", "Point data sample rate", 4, <<>>,
                                         PackF32(rate)))
        p7 == SetDefault(p6, "POINT", ParamData("UNITS",
                        "Units used for point data measurements.", -1, <<2>>, <<109, 109>>))
        p8 == SetDefault(p7, "POINT", ParamData("DESCRIPTIONS", "Channel descriptions.", -1,
                                                <<2, ppf>>, Spaces(ppf)))
        a1 == Set(p8, "ANALOG", ParamData("USED", "Analog channel count", 2, <<>>,
                                          PackU16(apf)))
        a2 == Set(a1, "ANALOG", ParamData("RATE", "Analog samples per second", 4, <<>>,
                                          PackF32(analog_rate)))
        a3 == SetDefault(a2, "ANALOG", ParamData("GEN_SCALE", "Analog general scale factor",
                                                 4, <<>>, PackF32(1)))
        a4 == SetDefault(a3, "ANALOG", EmptyArray("SCALE", "Analog channel scale factors"))
        a5 == SetDefault(a4, "ANALOG", EmptyArray("OFFSET", "Analog channel offsets"))
        a6 == SetDefault(a5, "ANALOG", ParamData("DESCRIPTIONS", "Channel descriptions.", -1,
                                                 <<2, apf>>, Spaces(apf)))
        t1 == writer_set_start_frame(a6, first)
        t2 == Set(t1, "TRIAL", ParamData("ACTUAL_END_FIELD", "Actual end frame", 2, <<2>>,
                                         PackU32(last)))
        start_block == parameter_blocks(t2) + 2
        point == t2[KeyOf(t2, "POINT")]
    IN  [groups |-> [t2 EXCEPT ![KeyOf(t2, "POINT")].params =
                        [k \in DOMAIN point.params |->
                            IF point.params[k].name = "DATA_START"
                            THEN [point.params[k] EXCEPT !.bytes = PackU16(start_block)]
                            ELSE point.params[k]]],
         header |-> [first_frame |-> Min(first, UINT16_MAX),
                     last_frame |-> Min(last, UINT16_MAX),
                     data_block |-> start_block, point_count |-> ppf, analog_count |-> apf]]

\* The Writer before write: the calls made on it, its frames and its rates.
MaxPoints == 2
WriterPointRate == 480
NoFileWritten == [groups |-> <<>>,
                  header |-> [first_frame |-> 1, last_frame |-> 1, data_block |-> 3,
                              point_count |-> 50, analog_count |-> 0]]
Rewrite(gs, nframes, ppf, apf, conversion) ==
    [groups |-> gs, nframes |-> nframes, ppf |-> ppf, apf |-> apf,
     conversion |-> conversion, pc |-> "writer", header_first |-> 1,
     first |-> NoFileWritten, second |-> NoFileWritten]
NoRewrite == Rewrite(<<>>, 0, 0, 0, "consume")

\* The groups of a new Writer after some of the calls set_start_frame,
\* set_point_labels(None) and set_analog_labels(None).
InWriterGroups ==
    LET s0 == {<<>>}
        s1 == s0 \cup {writer_set_start_frame(gs, f) : gs \in s0, f \in {1, 5}}
        s2 == s1 \cup {set_point_labels(gs) : gs \in s1}
    IN  s2 \cup {set_analog_labels(gs) : gs \in s2}

\* writer.write(handle): the file is the header and the records of the
\* groups and of their parameters, in the order of listed() and of _params.
WriteFirst ==
    /\ rew.pc = "writer"
    /\ rew.nframes > 0
    /\ rew' = [rew EXCEPT !.pc = "written",
                !.first = write_groups(rew.groups, rew.nframes, rew.ppf, rew.apf, WriterPointRate,
                                       rew.apf * WriterPointRate, rew.header_first)]
    /\ UNCHANGED notRew

\* Reader(handle).to_writer(conversion), for 'copy' and 'consume': the
\* Reader adds the groups and parameters in the order of their records; the
\* Writer takes or copies them and the header.
ReadAndConvert ==
    /\ rew.pc = "written"
    /\ rew.conversion \in {"copy", "consume"}
    /\ rew' = [rew EXCEPT !.pc = "converted", !.groups = rew.first.groups,
                          !.header_first = rew.first.header.first_frame]
    /\ UNCHANGED notRew

\* The Writer made of the Reader writes.
WriteAgain ==
    /\ rew.pc = "converted"
    /\ rew' = [rew EXCEPT !.pc = "rewritten",
                !.second = write_groups(rew.groups, rew.nframes, rew.ppf, rew.apf, WriterPointRate,
                                        rew.apf * WriterPointRate, rew.header_first)]
    /\ UNCHANGED notRew

-----------------------------------------------------------------------------
(* The fourth word of a point in integer mode: the residual and the camera  *)
(* value that Reader.read_frames(camera_sum) decodes from it.               *)
-----------------------------------------------------------------------------
\* The range of np.int16.
INT16_MAX == 32767
INT16_MIN == (0 - INT16_MAX) - 1

\* The sum over range(6) instead: the sixth bit is not counted.
observation_sum_6(camera_byte) ==
    LET bit(k) == BitAnd(camera_byte, k, 1)
    IN  bit(0) + bit(1) + bit(2) + bit(3) + bit(4) + bit(5)

\* sum((camera_byte & (1 << k)) >> k for k in range(7))
observation_sum(camera_byte) ==
    LET bit(k) == BitAnd(camera_byte, k, 1)
    IN  bit(0) + bit(1) + bit(2) + bit(3) + bit(4) + bit(5) + bit(6)

\* Reader.read_frames: the fifth value of the row of a point
camera_value(camera_sum, row) ==
    [row EXCEPT !.camera = IF camera_sum THEN observation_sum(row.camera) ELSE row.camera]

\* A point of an integer file with the fourth word w, read with the given
\* POINT:SCALE and camera_sum.
Word(w, scale_mag, camera_sum, row) ==
    [w |-> w, scale_mag |-> scale_mag, camera_sum |-> camera_sum,
     read |-> row # NoFrame, row |-> row]
NoWord == Word(0, FZero, FALSE, NoFrame)

\* One pass of the loop of read_frames over a frame of one point.
DecodeWord ==
    /\ ~wrd.read
    /\ wrd' = [wrd EXCEPT
                 !.read = TRUE,
                 !.row = camera_value(wrd.camera_sum,
                            frame_rows(FALSE, wrd.scale_mag,
                                       [x |-> 1, last |-> wrd.w, analog |-> <<>>],
                                       0, FOne, TRUE, TRUE))]
    /\ UNCHANGED notWord

-----------------------------------------------------------------------------
(* The records of the groups and parameters of a Writer: the id byte that   *)
(* GroupData.write and ParamData.write pack, and what Reader.__init__ makes *)
(* of it.                                                                   *)
-----------------------------------------------------------------------------
MaxGroups == 2
MaxParams == 1

\* The ids that add_group is called with.
InGroupIds == {-1, 0, 1, 2, 127, 128, 129}

\* struct.pack('b', v): a signed byte
INT8_MAX == 127
pack_b(v) == IF v < (0 - INT8_MAX) - 1 \/ v > INT8_MAX THEN "struct.error" ELSE "ok"

\* Writer.numeric_key_max and numeric_key_next
numeric_key_max(ids) == Max(ids \cup {0})
numeric_key_next(ids) == numeric_key_max(ids) + 1

\* Manager.listed(): the ids in ascending order
sorted(ids) ==
    LET least(S) == CHOOSE x \in S : \A y \in S : x <= y
        rest[S \in SUBSET ids] == IF S = {} THEN <<>> ELSE <<least(S)>> \o rest[S \ {least(S)}]
    IN  rest[ids]

\* A record as written: what wrote it, for which group, and its id byte.
Record(kind, id, byte) == [kind |-> kind, id |-> id, byte |-> byte]

\* GroupData.write(group_id, handle): the record of the group, its id byte
\* -group_id, then the records of its parameters, their id byte group_id.
group_write(group_id, nparams) ==
    <<Record("group", group_id, 0 - group_id)>>
        \o [k \in 1..nparams |-> Record("param", group_id, group_id)]

\* Writer._write_metadata: the records of all groups, in the order of listed()
write_records(g) ==
    LET order == sorted(DOMAIN g)
        from[k \in 0..Len(order)] ==
            IF k = 0 THEN <<>> ELSE from[k - 1] \o group_write(order[k], g[order[k]])
    IN  from[Len(order)]

\* Reader.__init__: the records parsed from the id bytes, up to the first
\* byte 0, which ends the parameter section.
parse_records(records) ==
    LET ends == {k \in DOMAIN records : records[k].byte = 0}
        n == IF ends = {} THEN Len(records)
             ELSE (CHOOSE k \in ends : \A j \in ends : k <= j) - 1
    IN  [k \in 1..n |->
            IF records[k].byte > 0 THEN [kind |-> "param", id |-> records[k].byte]
            ELSE [kind |-> "group", id |-> 0 - records[k].byte]]

\* The groups of a Writer, the number of parameters of each, and what
\* Writer.write and a Reader of the file written have made of them.
Section(g, pc, res, records, parsed) ==
    [groups |-> g, pc |-> pc, res |-> res, records |-> records, parsed |-> parsed]
NoSection == Section(<<>>, "edit", "ok", <<>>, <<>>)

\* Writer.add_group(group_id, name, desc) with an id not yet in use
AddGroupId ==
    \E id \in InGroupIds :
        /\ sec.pc = "edit"
        /\ Cardinality(DOMAIN sec.groups) < MaxGroups
        /\ id \notin DOMAIN sec.groups
        /\ sec' = [sec EXCEPT !.groups = DictPut(sec.groups, id, 0)]
        /\ UNCHANGED notSection

\* Writer.get_create(label) for a label not yet in use
GetCreate ==
    /\ sec.pc = "edit"
    /\ Cardinality(DOMAIN sec.groups) < MaxGroups
    /\ sec' = [sec EXCEPT !.groups = DictPut(sec.groups, numeric_key_next(DOMAIN sec.groups), 0)]
    /\ UNCHANGED notSection

\* Group.add_param(name, ...) on one of the groups
AddParamTo ==
    \E id \in DOMAIN sec.groups :
        /\ sec.pc = "edit"
        /\ sec.groups[id] < MaxParams
        /\ sec' = [sec EXCEPT !.groups[id] = @ + 1]
        /\ UNCHANGED notSection

\* Writer.write: the records of the groups are packed one after the other.
WriteRecords ==
    /\ sec.pc = "edit"
    /\ DOMAIN sec.groups # {}
    /\ LET records == write_records(sec.groups)
           res == IF \E k \in DOMAIN records : pack_b(records[k].byte) # "ok"
                  THEN "struct.error" ELSE "ok"
       IN  sec' = [sec EXCEPT !.pc = "written", !.res = res, !.records = records]
    /\ UNCHANGED notSection

\* Reader.__init__ on the file written
ReadRecords ==
    /\ sec.pc = "written"
    /\ sec.res = "ok"
    /\ sec' = [sec EXCEPT !.pc = "read", !.parsed = parse_records(sec.records)]
    /\ UNCHANGED notSection

-----------------------------------------------------------------------------
(* The layout of the file that Writer.write writes: the header, the         *)
(* parameter section, the padding and the frames, by stream position.       *)
-----------------------------------------------------------------------------
BLOCK == 512
MaxPosition == 8192

\* The payloads given to Param.bytes, by their length.
InPayloads == {0, 2, 2000}

\* len(self.bytes) of a parameter: numbers are kept as 16-bit words
payload_size(p) ==
    IF p.bytes_per_element \in {2, 4} THEN 2 * Len(p.bytes) ELSE Len(p.bytes)

\* ParamData.write: the bytes written for a parameter
param_written(p) == (param_binary_size(p) - total_bytes(p)) + payload_size(p)

\* GroupData.write: the bytes written for a group and its parameters
group_written(g) ==
    LET sum[k \in 0..Len(g.params)] ==
            IF k = 0 THEN 0 ELSE sum[k - 1] + param_written(g.params[k])
    IN  1 + 1 + len(g.name) + 2 + 1 + len(g.desc) + sum[Len(g.params)]

\* Writer._pad_block: the position after padding to the next block boundary
pad_block(pos) ==
    LET extra == pos % BLOCK
    IN  IF extra # 0 THEN pos + (BLOCK - extra) ELSE pos

\* Param.bytes = value, on POINT:LABELS
set_bytes(gs, n) ==
    LET point == gs[KeyOf(gs, "POINT")]
    IN  [gs EXCEPT ![KeyOf(gs, "POINT")].params =
            [k \in DOMAIN point.params |->
                IF point.params[k].name = "LABELS"
                THEN [point.params[k] EXCEPT !.bytes = [i \in 1..n |-> 32]]
                ELSE point.params[k]]]

\* A Writer, new or made of a Reader, whose header has the given
\* parameter_block, and the stream it writes to.
Layout(origin, parameter_block, gs, nframes, ppf, apf) ==
    [origin |-> origin, parameter_block |-> parameter_block, groups |-> gs,
     nframes |-> nframes, ppf |-> ppf, apf |-> apf,
     pc |-> "writer", pos |-> 0, header_at |-> 0, preamble_at |-> 0, records_end |-> 0,
     parameter_blocks |-> 0, data_block |-> 0, data_start |-> 0, data_at |-> 0]
NoLayout == Layout("new", 2, <<>>, 0, 0, 0)

\* Writer._write_metadata up to its loop, after Writer.write has set the
\* parameters: the header, the preamble, the records and the padding of the
\* last block.
write_metadata(w, written) ==
    LET point == written.groups[KeyOf(written.groups, "POINT")]
        data_start == point.params[CHOOSE k \in DOMAIN point.params :
                                       point.params[k].name = "DATA_START"]
        sum[k \in 0..Len(written.groups)] ==
            IF k = 0 THEN 0 ELSE sum[k - 1] + group_written(written.groups[k])
        header_end == pad_block(BLOCK)
    IN  [w EXCEPT !.pc = "padding",
                  !.groups = written.groups,
                  !.header_at = 0,
                  !.preamble_at = header_end,
                  !.records_end = header_end + 4 + sum[Len(written.groups)],
                  !.pos = pad_block(header_end + 4 + sum[Len(written.groups)]),
                  !.parameter_blocks = parameter_blocks(written.groups),
                  !.data_block = written.header.data_block,
                  !.data_start = uint16_value([bpe |-> 2, words |-> data_start.bytes])]

\* writer.get('POINT:LABELS').bytes = value, before write
ReplaceBytes ==
    \E n \in InPayloads :
        /\ lay.pc = "writer"
        /\ \E k \in DOMAIN lay.groups :
              lay.groups[k].name = "POINT" /\ Contains(lay.groups[k], "LABELS")
        /\ lay' = [lay EXCEPT !.groups = set_bytes(lay.groups, n)]
        /\ UNCHANGED notLayout

\* Writer.write up to the loop of _write_metadata
WriteMetadata ==
    /\ lay.pc = "writer"
    /\ lay.nframes > 0
    /\ lay' = write_metadata(lay,
                 write_groups(lay.groups, lay.nframes, lay.ppf, lay.apf, WriterPointRate,
                              lay.apf * WriterPointRate, 1))
    /\ UNCHANGED notLayout

\* while handle.tell() != 512 * (self.header.data_block - 1): one more block
PadToData ==
    /\ lay.pc = "padding"
    /\ lay.pos # BLOCK * (lay.data_block - 1)
    /\ lay.pos < MaxPosition
    /\ lay' = [lay EXCEPT !.pos = @ + BLOCK]
    /\ UNCHANGED notLayout

\* Writer._write_frames: the frames from the position reached, and the
\* padding of the last block.
WriteFrames ==
    /\ lay.pc = "padding"
    /\ lay.pos = BLOCK * (lay.data_block - 1)
    /\ lay' = [lay EXCEPT !.pc = "written",
                          !.data_at = lay.pos,
                          !.pos = pad_block(lay.pos + lay.nframes * (16 * lay.ppf + 4 * lay.apf))]
    /\ UNCHANGED notLayout

-----------------------------------------------------------------------------
(* The DEC floats of a file: DEC_to_IEEE on the 32 bits read as an unsigned *)
(* integer, DEC_to_IEEE_BYTES on the bytes.                                 *)
-----------------------------------------------------------------------------
\* The four bytes of a DEC float in the file, the second of them any byte;
\* 0x449A5000 read as an unsigned integer is among them.
InDecBytes ==
    { <<b0, b1, b2, b3>> : b0 \in {0, 80, 255}, b1 \in 0..255, b2 \in {0, 154}, b3 \in {0, 68, 255} }

\* struct.unpack('<I', bytes): the 32 bits are kept as two 16-bit words, the
\* low one first.
unpack_uint32(bytes) == <<bytes[1] + 256 * bytes[2], bytes[3] + 256 * bytes[4]>>

\* ((x & 0xFF000000) - 1) & 0xFF000000 on a Python int, by the high byte of
\* x: the difference is negative when the byte is 0, and the mask then gives
\* 0xFF000000.
exp_bits(high_byte) == IF high_byte = 0 THEN 255 ELSE high_byte - 1

\* DEC_to_IEEE(uint_32): the bits of the float returned
DEC_to_IEEE(uint_32) ==
    LET reshuffled == <<uint_32[2], uint_32[1]>>
    IN  <<reshuffled[1], (reshuffled[2] % 256) + 256 * exp_bits(reshuffled[2] \div 256)>>

\* DEC_to_IEEE_BYTES(bytes), four bytes: the bytes of the float returned
DEC_to_IEEE_BYTES(bytes) ==
    <<bytes[3], bytes[4], bytes[1],
      (bytes[2] + (IF bytes[2] % 128 = 0 THEN 1 ELSE 0)) - 1>>

\* A DEC float of a file and the bits converted from it by the two routines
\* (none yet: the empty sequence).
DecFloat(bytes) == [bytes |-> bytes, scalar |-> <<>>, bulk |-> <<>>]
NoDecFloat == DecFloat(<<0, 0, 0, 0>>)

\* Header._processor_convert, ParamReadonly.float_value: the scalar routine
ConvertScalar ==
    /\ dec.scalar = <<>>
    /\ dec' = [dec EXCEPT !.scalar = DEC_to_IEEE(unpack_uint32(dec.bytes))]
    /\ UNCHANGED notDec

\* ParamReadonly.float_array, Reader.read_frames: the routine for bytes
ConvertBulk ==
    /\ dec.bulk = <<>>
    /\ dec' = [dec EXCEPT !.bulk = unpack_uint32(DEC_to_IEEE_BYTES(dec.bytes))]
    /\ UNCHANGED notDec

-----------------------------------------------------------------------------
(* Writer._write_frames on a buffer of frames: the array raw is made once   *)
(* and filled for every frame.  Two Writers are followed, one with the      *)
(* buffer [A, B] and one with the buffer [B].                               *)
-----------------------------------------------------------------------------

\* The frames of the buffers: one point each, valid or not, no analog data.
InBuffered ==
    { [x |-> x, residual |-> residual, camera |-> camera, analog |-> <<>>] :
        x \in {FFromInt(1), FFromInt(15)},
        residual \in {FFromInt(-1), FZero, Single(3, 2)},
        camera \in {0, 5} }

\* raw = np.zeros((self.point_used, 4), point_dtype)
zeros(is_float) == [x |-> IF is_float THEN FZero ELSE 0, last |-> IF is_float THEN FZero ELSE 0]

\* The array raw left by every frame: the rows of the valid points are
\* assigned; of the row of an invalid point only the fourth word is assigned
\* and the coordinates stay what they are.
fill_raw(is_float, raw, valid, row) ==
    [x |-> IF valid THEN row.x ELSE raw.x, last |-> row.last]

\* Writer._write_frames, one pass of the loop: the array raw after it, which
\* is written to the file.
write_point(is_float, scale_mag, raw, frame) ==
    fill_raw(is_float, raw, FLeq(FZero, frame.residual),
             write_frame(is_float, scale_mag, frame, 0, FOne))

\* A Writer in _write_frames: its buffer, the array raw and the raw arrays
\* written so far.
Stream(is_float, frames) ==
    [is_float |-> is_float, frames |-> frames, raw |-> zeros(is_float), written |-> <<>>]
write_next(s) ==
    LET raw == write_point(s.is_float, Single(1, 2), s.raw, s.frames[Len(s.written) + 1])
    IN  [s EXCEPT !.raw = raw, !.written = Append(s.written, raw)]
NoStream == [both |-> Stream(FALSE, <<>>), alone |-> Stream(FALSE, <<>>)]

\* The Writer with the buffer [A, B] writes its next frame.
WriteOfBoth ==
    /\ Len(wfr.both.written) < Len(wfr.both.frames)
    /\ wfr' = [wfr EXCEPT !.both = write_next(wfr.both)]
    /\ UNCHANGED notStream

\* The Writer with the buffer [B] writes its frame.
WriteAlone ==
    /\ Len(wfr.alone.written) < Len(wfr.alone.frames)
    /\ wfr' = [wfr EXCEPT !.alone = write_next(wfr.alone)]
    /\ UNCHANGED notStream

-----------------------------------------------------------------------------
(* The specifications: one for each part.                                   *)

IdleDir == groups = EmptyDict /\ gname = <<>> /\ dlast = NoDirCall
IdlePar == params = EmptyDict /\ plast = NoParCall
IdleFrm == wr = NewWriter /\ file = NoFile /\ derived = NotRead
IdleGen == gen = NoGenerator
IdleMeta == meta = NoCheck
IdleTrip == trip = NoTrip
IdleMgr == mgr = NoManager
IdleOpn == opn = NoOpen
IdleItr == itr = NoIteration
IdleBuf == wbuf = NoBuffer
IdleEnc == enc = NoEncoding
IdleConv == conv = NoConversion
IdleArr == arr = NoArrayRead
IdleRew == rew = NoRewrite
IdleWord == wrd = NoWord
IdleSection == sec = NoSection
IdleLayout == lay = NoLayout
IdleDec == dec = NoDecFloat
IdleStream == wfr = NoStream

\* Every part but the given ones is idle.
IdleBut(parts) ==
    /\ IF "dir" \in parts THEN TRUE ELSE IdleDir
    /\ IF "par" \in parts THEN TRUE ELSE IdlePar
    /\ IF "frm" \in parts THEN TRUE ELSE IdleFrm
    /\ IF "gen" \in parts THEN TRUE ELSE IdleGen
    /\ IF "meta" \in parts THEN TRUE ELSE IdleMeta
    /\ IF "trip" \in parts THEN TRUE ELSE IdleTrip
    /\ IF "mgr" \in parts THEN TRUE ELSE IdleMgr
    /\ IF "opn" \in parts THEN TRUE ELSE IdleOpn
    /\ IF "itr" \in parts THEN TRUE ELSE IdleItr
    /\ IF "buf" \in parts THEN TRUE ELSE IdleBuf
    /\ IF "enc" \in parts THEN TRUE ELSE IdleEnc
    /\ IF "conv" \in parts THEN TRUE ELSE IdleConv
    /\ IF "arr" \in parts THEN TRUE ELSE IdleArr
    /\ IF "rew" \in parts THEN TRUE ELSE IdleRew
    /\ IF "word" \in parts THEN TRUE ELSE IdleWord
    /\ IF "section" \in parts THEN TRUE ELSE IdleSection
    /\ IF "layout" \in parts THEN TRUE ELSE IdleLayout
    /\ IF "dec" \in parts THEN TRUE ELSE IdleDec
    /\ IF "stream" \in parts THEN TRUE ELSE IdleStream

InitDir == IdleBut({})
NextDir ==
    \/ ReadParamRecord
    \/ ReadGroupRecord
    \/ ReadEnd
    \/ AddGroup
    \/ RemoveGroup
    \/ RenameGroup
SpecDir == InitDir /\ [][NextDir]_vars

InitParams == IdleBut({})
NextParams ==
    \/ AddParam
    \/ RemoveParam
    \/ RenameParam
    \/ RenameParamObject
SpecParams == InitParams /\ [][NextParams]_vars

InitWrite == IdleBut({})
NextWrite ==
    \/ SetStartFrame
    \/ AddFrames
    \/ Write
    \/ OpenReader
SpecWrite == InitWrite /\ [][NextWrite]_vars

InitLastFrame ==
    /\ IdleBut({"frm"})
    /\ wr = NewWriter
    /\ file \in {[written |-> TRUE, s |-> 0, n |-> 0, p |-> 0, m |-> m] : m \in InMetadata}
    /\ derived = NotRead
NextLastFrame == OpenReader
SpecLastFrame == InitLastFrame /\ [][NextLastFrame]_vars

InitRead ==
    /\ IdleBut({"gen"})
    /\ gen \in {Generator(first, first + count - 1, pb, ab, size) :
                    first \in InFirst, count \in InCounts, pb \in InPointBytes,
                    ab \in InAnalogBytes, size \in InSizes}
NextRead == ResumeGenerator
SpecRead == InitRead /\ [][NextRead]_vars

InitMeta ==
    /\ IdleBut({"meta"})
    /\ meta \in {Unchecked(debug, h, g) : debug \in BOOLEAN, h \in InHeaders, g \in InGroups}
NextMeta ==
    \/ ReaderInit
    \/ WriterWrite
SpecMeta == InitMeta /\ [][NextMeta]_vars

\* The round trip of a file.
InitRound ==
    /\ IdleBut({"trip"})
    /\ trip \in InTrips

NextRound == FromReader \/ WriteFile \/ ReadBack

SpecRound == InitRound /\ [][NextRound]_vars

\* The derived quantities of a Manager.
InitDerived == IdleBut({"mgr"}) /\ mgr \in InManagers
NextDerived ==
    \/ ReadPointRate
    \/ ReadPointScale
    \/ ReadPointUsed
    \/ ReadAnalogUsed
    \/ ReadAnalogRate
    \/ ReadAnalogPerFrame
    \/ ReadFirstFrame
SpecDerived == InitDerived /\ [][NextDerived]_vars

\* The construction of a Reader.
InitOpen ==
    /\ IdleBut({"opn"})
    /\ opn \in {Opening(debug, magic, processor, records) :
                    debug \in BOOLEAN, magic \in InMagic, processor \in InProcessor,
                    records \in 0..MaxRecords}
NextOpen ==
    \/ OpenHeader
    \/ OpenProcessor
    \/ OpenRecord
    \/ OpenEnd
SpecOpen == InitOpen /\ [][NextOpen]_vars

\* The frames generator.
InitFrames ==
    /\ IdleBut({"itr"})
    /\ \E is_float \in BOOLEAN, has_analog \in BOOLEAN :
           itr \in InIterations(is_float, has_analog)
NextFrames ==
    \/ BeginFrames
    \/ NextFrame
    \/ EndFrames
SpecFrames == InitFrames /\ [][NextFrames]_vars

\* The frames buffer of a Writer.
InitBuffer == IdleBut({})
NextBuffer ==
    \/ AppendFrames
    \/ InsertFrames
SpecBuffer == InitBuffer /\ [][NextBuffer]_vars

\* The events of a header.
InitEncode ==
    /\ IdleBut({"enc"})
    /\ enc \in {Encoding(event_count, n) : event_count \in 0..EventSlots, n \in 0..MaxEvents}
NextEncode == EncodeEvents
SpecEncode == InitEncode /\ [][NextEncode]_vars

\* The conversion of a Reader to a Writer.
InitConvert ==
    /\ IdleBut({"conv"})
    /\ conv \in {Converting(conversion, processor, events, nframes) :
                    conversion \in InConversions,
                    processor \in {PROCESSOR_INTEL, PROCESSOR_DEC, PROCESSOR_MIPS},
                    events \in 0..MaxSourceEvents, nframes \in 1..MaxSourceFrames}
NextConvert ==
    \/ ConvertVerify
    \/ ConvertMetadata
    \/ ConvertFrame
    \/ ConvertEnd
SpecConvert == InitConvert /\ [][NextConvert]_vars

\* The array accessors.
InitArrays ==
    /\ IdleBut({"arr"})
    /\ arr \in {ArrayRead(dimensions, bytes_per_element) :
                    dimensions \in InDimensions, bytes_per_element \in {1, 2}}
NextArrays ==
    \/ ReadNumericArray
    \/ ReadBytesArray
    \/ ReadStringArray
SpecArrays == InitArrays /\ [][NextArrays]_vars

\* A file written, read and written again.
InitRewrite ==
    /\ IdleBut({"rew"})
    /\ rew \in {Rewrite(gs, nframes, ppf, apf, conversion) :
                    gs \in InWriterGroups, nframes \in 1..MaxSourceFrames, ppf \in 1..MaxPoints,
                    apf \in 0..1, conversion \in {"copy", "consume"}}
NextRewrite ==
    \/ WriteFirst
    \/ ReadAndConvert
    \/ WriteAgain
SpecRewrite == InitRewrite /\ [][NextRewrite]_vars

\* A point of an integer file, its fourth word any signed 16-bit word.
InitWord ==
    /\ IdleBut({"word"})
    /\ \E w \in INT16_MIN..INT16_MAX, camera_sum \in BOOLEAN :
           wrd = Word(w, Single(3, 10), camera_sum, NoFrame)
NextWord == DecodeWord
SpecWord == InitWord /\ [][NextWord]_vars

\* A Writer to which groups and parameters are added, written and read.
InitSection == IdleBut({})
NextSection ==
    \/ AddGroupId
    \/ GetCreate
    \/ AddParamTo
    \/ WriteRecords
    \/ ReadRecords
SpecSection == InitSection /\ [][NextSection]_vars

\* A new Writer, or a Writer made by 'consume' or 'copy' of a Reader of a
\* file whose header gives the parameter section the block 2 or 3; the
\* groups are those of a new Writer after some of its calls, or those of a
\* file written.
InitLayout ==
    /\ IdleBut({"layout"})
    /\ \E origin \in {"new", "consume", "copy"}, gs \in InWriterGroups,
          nframes \in 1..MaxFrames, ppf \in 1..MaxPoints, apf \in 0..1 :
          \E parameter_block \in IF origin = "new" THEN {2} ELSE {2, 3} :
              lay = Layout(origin, parameter_block,
                           IF origin = "new" THEN gs
                           ELSE write_groups(gs, nframes, ppf, apf, WriterPointRate,
                                             apf * WriterPointRate, 1).groups,
                           nframes, ppf, apf)
NextLayout ==
    \/ ReplaceBytes
    \/ WriteMetadata
    \/ PadToData
    \/ WriteFrames
SpecLayout == InitLayout /\ [][NextLayout]_vars

\* A DEC float is converted by both routines.
InitDec == IdleBut({"dec"}) /\ \E bytes \in InDecBytes : dec = DecFloat(bytes)
NextDec == ConvertScalar \/ ConvertBulk
SpecDec == InitDec /\ [][NextDec]_vars

\* Two Writers with the same POINT:SCALE, one holding the frames A and B,
\* the other the frame B.
InitStream ==
    /\ IdleBut({"stream"})
    /\ \E is_float \in BOOLEAN, A \in InBuffered, B \in InBuffered :
          wfr = [both |-> Stream(is_float, <<A, B>>), alone |-> Stream(is_float, <<B>>)]
NextStream == WriteOfBoth \/ WriteAlone
SpecStream == InitStream /\ [][NextStream]_vars

-----------------------------------------------------------------------------
(* Properties of the group directory.                                       *)

\* The keys of a directory under which the GroupData object o is held.
NumericKeysOf(g, o) == {k \in DOMAIN g : IsIntKey(k) /\ g[k].obj = o}
NameKeysOf(g, o) == {k \in DOMAIN g : IsStrKey(k) /\ g[k].obj = o}
Held(g) == {g[k].obj : k \in DOMAIN g}

\* The dual-key invariant of a directory.
DualKey(g) ==
    /\ Cardinality({k \in DOMAIN g : IsStrKey(k)}) = Cardinality({k \in DOMAIN g : IsIntKey(k)})
    /\ \A o \in Held(g) :
        /\ Cardinality(NumericKeysOf(g, o)) = 1
        /\ Cardinality(NameKeysOf(g, o)) = 1
        /\ \A j \in NumericKeysOf(g, o), k \in NameKeysOf(g, o) : g[j] = g[k]

WriterOps == {"add_group", "remove_group", "rename_group"}

\* The group a call names, in the directory the call found.
Named(g, ref) ==
    IF ref.byObject
    THEN IF ref.obj \in Held(g) THEN GroupOf(ref.obj) ELSE NoGroup
    ELSE IF ref.key \in DOMAIN g THEN g[ref.key] ELSE NoGroup

\* C6: after every add_group, remove_group and rename_group call, and after
\* the construction of a Reader, the directory holds as many name keys as
\* numeric keys and every group is held under exactly one name key and
\* exactly one numeric key, both with the same Group object.
C6_DualKeyAlways ==
    dlast.op \in WriterOps \cup {"reader"} => DualKey(groups)

\* C7: rename_group(key, new_name), for a key of the directory and a str that
\* is not in use, makes get(new_name) the Group that the key held, makes the
\* old name unreachable, sets the name attribute, and leaves the number of
\* name keys and the (id, group) list as they were.
C7_RenameToName ==
    ( /\ dlast.op = "rename_group"
      /\ DualKey(dlast.pre)
      /\ ~dlast.ref.byObject
      /\ dlast.ref.key \in DOMAIN dlast.pre
      /\ IsStrKey(dlast.new)
      /\ dlast.new \notin DOMAIN dlast.pre
      /\ StrKey(Upper(dlast.new[3])) \notin DOMAIN dlast.pre )
    => LET grp == dlast.pre[dlast.ref.key]
           oldName == StrKey(dlast.preName[grp.obj])
       IN  /\ dlast.res = "ok"
           /\ get(groups, dlast.new) = grp
           /\ get(groups, oldName) = NoGroup
           /\ gname[grp.obj] = dlast.new[3]
           /\ Cardinality(keys(groups)) = Cardinality(keys(dlast.pre))
           /\ listed(groups) = listed(dlast.pre)

\* C8: rename_group(key, n), for a numeric id, a name or a Group object of
\* the directory and an int n that is not in use, leaves the group under n
\* and under its name, no longer under its old numeric key, and in no case
\* (not when the call raises either) under two numeric keys or no name key.
C8_RenumberKeepsKeys ==
    ( /\ dlast.op = "rename_group"
      /\ DualKey(dlast.pre)
      /\ Named(dlast.pre, dlast.ref) # NoGroup
      /\ IsIntKey(dlast.new)
      /\ dlast.new \notin DOMAIN dlast.pre )
    => LET grp == Named(dlast.pre, dlast.ref)
       IN  /\ Cardinality(NumericKeysOf(groups, grp.obj)) = 1
           /\ NameKeysOf(groups, grp.obj) = NameKeysOf(dlast.pre, grp.obj)
           /\ dlast.res = "ok" =>
                 /\ get(groups, dlast.new) = grp
                 /\ NumericKeysOf(dlast.pre, grp.obj) \cap NumericKeysOf(groups, grp.obj) = {}

\* C9: add_group with an id or an (upper-cased) name of the directory raises
\* KeyError, and rename_group onto a key that another group holds raises
\* ValueError; the directory is left as the call found it.  For the
\* parameters of a group: add_param with a name of the group raises KeyError
\* and rename_param onto a key of another parameter raises ValueError, the
\* parameter map left as it was.
C9_DuplicatesRaise ==
    /\ ( /\ dlast.op = "add_group"
         /\ \/ dlast.ref.key \in DOMAIN dlast.pre
            \/ StrKey(Upper(dlast.new[3])) \in DOMAIN dlast.pre )
       => dlast.res = "KeyError" /\ groups = dlast.pre /\ gname = dlast.preName
    /\ ( /\ dlast.op = "rename_group"
         /\ DualKey(dlast.pre)
         /\ Named(dlast.pre, dlast.ref) # NoGroup
         /\ dlast.new \in DOMAIN dlast.pre
         /\ dlast.pre[dlast.new].obj # Named(dlast.pre, dlast.ref).obj )
       => dlast.res = "ValueError" /\ groups = dlast.pre /\ gname = dlast.preName
    /\ ( /\ plast.op = "add_param"
         /\ Upper(plast.name) \in DOMAIN plast.pre )
       => plast.res = "KeyError" /\ params = plast.pre
    /\ ( /\ plast.op = "rename_param"
         /\ plast.name \in DOMAIN plast.pre
         /\ plast.new \in DOMAIN plast.pre
         /\ plast.new # plast.name )
       => plast.res = "ValueError" /\ params = plast.pre

-----------------------------------------------------------------------------
(* Properties of the parameter names.                                       *)

\* The case variants of a name among the names the calls are made with.
Variants(name) == {v \in InParamNames : Upper(v) = Upper(name)}

\* C10: a parameter is stored under the upper-cased form of the name it was
\* added with or renamed to, and Manager.get, Group.get, the `in` test,
\* remove_param and rename_param find it under every case variant of that
\* name.
C10_CaseInsensitive ==
    \A k \in DOMAIN params :
        /\ k = Upper(k)
        /\ \A v \in Variants(k) :
            /\ get_param(params, v) = params[k]
            /\ group_get(params, v) = params[k]
            /\ contains(params, v)
            /\ remove_param(params, v).res = "ok"
            /\ \A new \in InParamNames :
                  Upper(new) \notin DOMAIN params /\ new \notin DOMAIN params
                  => rename_param(params, v, new).res = "ok"

-----------------------------------------------------------------------------
(* Properties of the frame range.                                           *)

\* The frame numbers the parameters of a file give, each as an integer.
PresentEnds(m) ==
    {m.hlast}
    \cup (IF m.end # Absent THEN {uint32_value(m.end)} ELSE {})
    \cup (IF m.long # Absent
          THEN {IF m.long.bpe = 2 THEN uint16_value(m.long) ELSE int_float_value(m.long)}
          ELSE {})
    \cup (IF m.frames # Absent
          THEN {IF m.frames.bpe = 2 THEN uint16_value(m.frames) ELSE int_float_value(m.frames)}
          ELSE {})

\* C2: the file written for N >= 1 frames of P points with start frame
\* s >= 1 is read back with point_used = P, first_frame = s and
\* frame_count = N.
C2_WriteReadCounts ==
    derived.read =>
        /\ derived.used = file.p
        /\ derived.first = file.s
        /\ derived.count = file.n

\* C4: last_frame is the header's last_frame when the header's first_frame
\* is below it and it is not 65535; otherwise it is the largest of the
\* header's last_frame and the values (uint32 for ACTUAL_END_FIELD, float
\* taken as an integer or uint16 by element width for LONG_FRAMES and FRAMES)
\* of the parameters that are present.
C4_LastFrame ==
    derived.read =>
        IF file.m.hfirst < file.m.hlast /\ file.m.hlast # 65535
        THEN derived.last = file.m.hlast
        ELSE /\ derived.last \in PresentEnds(file.m)
             /\ \A v \in PresentEnds(file.m) : v <= derived.last

\* C4, reached: a header last_frame of 65535 above the header first_frame,
\* and the last frame read from a parameter instead.
C4_Witness ==
    /\ derived.read
    /\ file.m.hfirst < file.m.hlast
    /\ file.m.hlast = 65535
    /\ derived.last > 65535

-----------------------------------------------------------------------------
(* Properties of the frame generator.                                       *)

\* The data section holds k complete frames.
HoldsFrames(g, k) == k * (g.point_bytes + g.analog_bytes) <= g.size

-----------------------------------------------------------------------------
(* Properties of the metadata check.                                        *)

\* The header fields and the parameters that stand for the same quantity
\* disagree: one of the five that are asserted, or the data block.
AssertedDisagree(h, g) ==
    \/ g.used.present /\ g.used.v # h.point_count
    \/ g.scale.present /\ g.scale.v # h.scale_factor
    \/ g.rate.present /\ g.rate.v # h.frame_rate
    \/ ~RatioAgrees(h, g)
    \/ h.analog_count # AnalogUsed(h, g) * h.analog_per_frame
DataBlockDisagree(h, g) == g.data_start.present /\ g.data_start.v # h.data_block

-----------------------------------------------------------------------------
(* Properties of the round trip.                                            *)

\* |a - b| <= step
Within(a, b, step) == FLeq(FAbs(FSum(a, FNeg(b))), step)

\* The original point is valid: its residual is not negative.
ValidPoint == FLeq(FZero, trip.frame.residual)

\* C1: when a file that a Reader reads is converted with to_writer, written
\* and read back, point_scale, point_used, analog_used and frame_count are
\* those of the original, and of a valid point the x value is within one
\* step |point_scale| of the original in an integer file and equal to it
\* in a float file, with the same residual, the same camera value and the
\* same analog samples.
C1_RoundTrip ==
    trip.stage = "reread" =>
        /\ trip.scale_mag2 = trip.scale_mag
        /\ point_used(trip.m2) = point_used(trip.m)
        /\ trip.analog_used2 = Len(trip.raw.analog)
        /\ frame_count(trip.m2) = frame_count(trip.m)
        /\ ValidPoint =>
              /\ IF trip.is_float THEN trip.frame2.x = trip.frame.x
                 ELSE Within(trip.frame2.x, trip.frame.x, trip.scale_mag)
              /\ trip.frame2.residual = trip.frame.residual
              /\ trip.frame2.camera = trip.frame.camera
        /\ trip.frame2.analog = trip.frame.analog

-----------------------------------------------------------------------------
(* Properties of the derived quantities.                                    *)

\* The parameter a property is named after, and the value in its bytes: a
\* single, or an unsigned integer of the parameter's width.
NamedParam(m, name) ==
    CASE name = "point_rate" -> m.rate
      [] name = "point_scale" -> m.scale
      [] name = "point_used" -> m.used
      [] name = "analog_used" -> m.analog_used
      [] name = "analog_rate" -> m.analog_rate
      [] name = "first_frame" -> m.start
ParamNumber(param, name) ==
    IF name = "first_frame" THEN FFromInt(uint32_value(param))
    ELSE IF param.bpe = 4 THEN SingleOfWords(param.words)
    ELSE FFromInt(uint16_value(param))

\* The header-derived value of a property.
HeaderNumber(m, name) ==
    CASE name = "point_rate" -> m.h.frame_rate
      [] name = "point_scale" -> m.h.scale_factor
      [] name = "point_used" -> FFromInt(m.h.point_count)
      [] name = "analog_used" -> IF m.h.analog_per_frame > 0
                                 THEN FFromInt(m.h.analog_count \div m.h.analog_per_frame)
                                 ELSE FZero
      [] name = "analog_rate" -> FMul(FFromInt(m.h.analog_per_frame), mgr_point_rate(m).v,
                                      DoublePrecision)
      [] name = "first_frame" -> FFromInt(m.h.first_frame)

\* C11: a derived quantity is the value of the parameter it is named after
\* whenever that parameter is present, and the header-derived value only
\* when the parameter is absent; analog_per_frame is the whole part of
\* analog_rate / point_rate for a point_rate other than zero.
C11_DerivedQuantities ==
    /\ mgr.read \notin {"none", "analog_per_frame"} =>
          /\ mgr.out.res = "ok"
          /\ mgr.out.v = IF NamedParam(mgr.m, mgr.read) # Absent
                         THEN ParamNumber(NamedParam(mgr.m, mgr.read), mgr.read)
                         ELSE HeaderNumber(mgr.m, mgr.read)
    /\ (mgr.read = "analog_per_frame" /\ mgr.out.res = "ok") =>
          FTruncate(mgr.out.v) * FTruncate(mgr_point_rate(mgr.m).v)
              <= FTruncate(mgr_analog_rate(mgr.m).v)
          /\ FTruncate(mgr_analog_rate(mgr.m).v)
              < (FTruncate(mgr.out.v) + 1) * FTruncate(mgr_point_rate(mgr.m).v)

-----------------------------------------------------------------------------
(* Properties of the construction of a Reader.                              *)

\* C12: when the magic byte is not 80 or the processor byte is not one of
\* 84, 85, 86, the construction of a Reader ends with an error before any
\* group or parameter record is parsed.
C12_BadFileAborts ==
    (opn.magic # 80 \/ opn.processor \notin {84, 85, 86}) =>
        /\ opn.parsed = 0
        /\ opn.pc \notin {"records", "constructed"}

-----------------------------------------------------------------------------
(* Properties of the frames generator.                                      *)

\* The point array and the analog array of the i-th tuple yielded.
YieldedPoints(i) == itr.points[itr.yielded[i].points]
YieldedAnalog(i) == itr.analogs[itr.yielded[i].analog]

\* C13: with copy=True the point array and the analog array of every frame
\* yielded earlier keep the contents of their frame while the generator
\* advances; with copy=False every tuple yielded holds the same point array,
\* and after the k-th step its contents are those of the k-th frame.
C13_CopyAndBuffer ==
    LET n == Len(itr.yielded)
    IN  /\ itr.copy =>
            \A i \in 1..n :
                /\ YieldedPoints(i) = Row(FrameOf(itr, i))
                /\ YieldedAnalog(i) = FrameOf(itr, i).analog
        /\ ~itr.copy =>
            \A i \in 1..n :
                /\ itr.yielded[i].points = itr.yielded[1].points
                /\ YieldedPoints(i) = Row(FrameOf(itr, n))

\* Two frames with different points and samples were yielded with copy=True,
\* and the generator went on to its end.
C13_Witness ==
    /\ itr.copy
    /\ itr.pc = "exhausted"
    /\ Len(itr.yielded) = 2
    /\ Row(FrameOf(itr, 1)) # Row(FrameOf(itr, 2))
    /\ FrameOf(itr, 1).analog # FrameOf(itr, 2).analog
    /\ Len(FrameOf(itr, 1).analog) > 0

\* The words of the analog samples of frame i, as the floats they decode to.
RawAnalog(i) ==
    [c \in DOMAIN itr.file[i].analog |->
        IF itr.is_float THEN itr.file[i].analog[c] ELSE FFromInt(itr.file[i].analog[c])]

\* C14: the analog values yielded are (raw - OFFSET) * (SCALE * GEN_SCALE)
\* exactly when analog_transform is True, and the raw decoded words when it
\* is False.
C14_AnalogTransform ==
    \A i \in 1..Len(itr.yielded) :
        YieldedAnalog(i) =
            IF itr.analog_transform
            THEN [c \in DOMAIN RawAnalog(i) |->
                    FMul(FSub(RawAnalog(i)[c], FFromInt(itr.offset), DoublePrecision),
                         analog_scales(FFromInt(49), FOne), DoublePrecision)]
            ELSE RawAnalog(i)

\* Frame i holds a point that read_frames takes as invalid: the fourth word
\* is negative, or a coordinate is not finite and check_nan is True.
Invalid(i) ==
    \/ (IF itr.is_float THEN FTruncate(itr.file[i].last) ELSE itr.file[i].last) < 0
    \/ itr.check_nan /\ itr.is_float /\ ~isfinite(itr.file[i].x)

\* The array of the i-th tuple still holds the row as it was yielded: it is a
\* copy, or the buffer after the latest step.
AsYielded(i) == itr.copy \/ i = Len(itr.yielded)

\* C15: the fourth and the fifth value of the row of every invalid point
\* yielded are both -1.
C15_InvalidRow ==
    \A i \in 1..Len(itr.yielded) :
        (AsYielded(i) /\ Invalid(i)) =>
            /\ YieldedPoints(i).residual = FFromInt(-1)
            /\ YieldedPoints(i).camera = -1

-----------------------------------------------------------------------------
(* Properties of the frames buffer.                                         *)

\* C16: all the frames of the buffer have the same point shape and the same
\* analog shape, whatever calls of add_frames were made; a call that raised
\* left the buffer as it was; a call that succeeded with index=i placed the
\* new frames in their order from position i on, the frames that were there
\* keeping their order.
C16_AddFrames ==
    /\ \A j, k \in DOMAIN wbuf.frames :
        /\ wbuf.frames[j].point = wbuf.frames[k].point
        /\ wbuf.frames[j].analog = wbuf.frames[k].analog
    /\ wbuf.res = "ValueError" => wbuf.frames = wbuf.pre
    /\ (wbuf.res = "ok" /\ wbuf.index.given) =>
        LET i == wbuf.index.i
            n == Len(wbuf.arg)
        IN  /\ Len(wbuf.frames) = Len(wbuf.pre) + n
            /\ \A k \in 1..n : wbuf.frames[i + k] = wbuf.arg[k]
            /\ \A k \in 1..i : wbuf.frames[k] = wbuf.pre[k]
            /\ \A k \in (i + 1)..Len(wbuf.pre) : wbuf.frames[k + n] = wbuf.pre[k]

-----------------------------------------------------------------------------
(* Properties of the events of a header.                                    *)

\* C19: encode_events with n >= 0 pairs never raises: the header then holds
\* min(n, 18) events, and a warning was given exactly when n > 18.
C19_EncodeEvents ==
    enc.pc = "left" =>
        /\ enc.out.res = "ok"
        /\ enc.out.event_count = Min(enc.n, 18)
        /\ enc.out.warned = (enc.n > 18)

-----------------------------------------------------------------------------
(* Properties of the conversion.                                            *)

\* The documented names of the modes, and the shallow ones of them.
Documented == {"None", "consume", "copy", "copy_metadata", "copy_shallow", "copy_header"}
Shallow == {"copy_shallow", "copy_header"}

\* C18: from_reader raises ValueError for every mode that is not one of the
\* documented names and accepts these; for a source that is not in Intel
\* format it raises ValueError in every mode but the shallow ones, which
\* succeed; the Writer returned holds the frames of the source in every mode
\* but 'copy_metadata' and 'copy_header'.
C18_FromReaderModes ==
    conv.pc \in {"returned", "raised"} =>
        /\ conv.conversion \notin Documented => conv.res = "ValueError"
        /\ (conv.conversion \in Documented /\ conv.processor = 84) => conv.res = "ok"
        /\ (conv.conversion \in Documented \ Shallow /\ conv.processor # 84) =>
                conv.res = "ValueError"
        /\ (conv.conversion \in Shallow /\ conv.processor # 84) => conv.res = "ok"
        /\ conv.res = "ok" =>
                conv.frames = IF conv.conversion \in {"copy_metadata", "copy_header"} THEN 0
                              ELSE conv.nframes

-----------------------------------------------------------------------------
(* Properties of the array accessors.                                       *)

\* The flat offset i0 + i1*d0 + i2*d0*d1 + ... of the element of a Fortran
\* array of dimensions d at the index i = (i0, i1, ...).
RECURSIVE FortranOffset(_, _)
FortranOffset(i, d) ==
    IF i = <<>> THEN 0 ELSE i[1] + d[1] * FortranOffset(Tail(i), Tail(d))

\* The element packed at a flat offset, and the word of d0 bytes that starts
\* at a byte offset.
PackedElement(offset) ==
    unsigned(SubSeq(arr.bytes, offset * arr.bytes_per_element + 1,
                    (offset + 1) * arr.bytes_per_element))
PackedWord(offset) == SubSeq(arr.bytes, offset + 1, offset + arr.dimensions[1])

\* C20: for the dimensions [d0, ..., dn] the numeric accessor returns an array
\* of shape [dn, ..., d0] whose element at (in, ..., i0) is the one packed at
\* the offset i0 + i1*d0 + ...; for two and more dimensions bytes_array and
\* string_array return an array of shape [dn, ..., d1] whose entry at
\* (in, ..., i1) is the word of d0 bytes at the byte d0*(i1 + i2*d1 + ...).
C20_DimensionReversal ==
    LET d == arr.dimensions
    IN  /\ arr.read = "numeric" =>
            /\ arr.out.shape = Reverse(d)
            /\ DOMAIN arr.out.at = ndindex(Reverse(d))
            /\ \A i \in DOMAIN arr.out.at :
                    arr.out.at[i] = PackedElement(FortranOffset(Reverse(i), d))
        /\ (arr.read \in {"bytes", "string"} /\ Len(d) >= 2) =>
            /\ arr.out.shape = Reverse(Tail(d))
            /\ DOMAIN arr.out.at = ndindex(Reverse(Tail(d)))
            /\ \A i \in DOMAIN arr.out.at :
                    LET word == PackedWord(d[1] * FortranOffset(Reverse(i), Tail(d)))
                    IN  arr.out.at[i] = IF arr.read = "bytes" THEN word
                                        ELSE decode_string(word)

\* The numeric accessor was read on a parameter of three dimensions, of
\* elements of two bytes.
C20_Witness ==
    /\ arr.read = "numeric"
    /\ arr.dimensions = <<2, 3, 1>>
    /\ arr.bytes_per_element = 2

-----------------------------------------------------------------------------
(* Properties of the file written again.                                    *)

\* C17: the file that a Writer wrote, read by a Reader, converted by
\* to_writer in the mode 'copy' or 'consume' and written again with no edit,
\* holds the same header and the same group and parameter records in the
\* same order as the first file.
C17_RewriteIdentical ==
    rew.pc = "rewritten" => rew.second = rew.first

-----------------------------------------------------------------------------
(* Properties of the directory a Reader builds.                             *)
-----------------------------------------------------------------------------

\* The record of a parameter is read without an exception, whichever groups
\* the records before it have created.
ParamRecordRead == dlast.op = "read_param" => dlast.res = "ok"

\* After the record of a group has been read, the group is in the directory
\* under its id and under its name, as one Group object whose name is set.
GroupRecordRead ==
    dlast.op = "read_group" /\ dlast.res = "ok" =>
        /\ dlast.ref.key \in DOMAIN groups
        /\ dlast.new \in DOMAIN groups
        /\ groups[dlast.new] = groups[dlast.ref.key]
        /\ groups[dlast.new].kind = "Group"
        /\ gname[groups[dlast.new].obj] = dlast.new[3]

\* C21: the directory a Reader builds does not depend on the order of the
\* records: whether the record of a group comes before or after the records
\* of its parameters, also when the parameters of several groups come before
\* their groups, every record is read and each group is then reachable by its
\* id and by its name as the same Group object, with its name set.
C21_RecordOrder == ParamRecordRead /\ GroupRecordRead

-----------------------------------------------------------------------------
(* Properties of the fourth word of a point.                                *)
-----------------------------------------------------------------------------

\* The 16 bits of a signed word, and those of them that are set.
Unsigned16(w) == IF w < 0 THEN w + 65536 ELSE w
SetBits(w, bits) == {k \in bits : (Unsigned16(w) \div Pow2(k)) % 2 = 1}
BitsValue(w, low, high) ==
    LET weight(k) == IF k \in SetBits(w, low..high) THEN Pow2(k - low) ELSE 0
        sum[k \in (low - 1)..high] == IF k < low THEN 0 ELSE sum[k - 1] + weight(k)
    IN  sum[high]

-----------------------------------------------------------------------------
(* Properties of the id bytes of the records.                               *)
-----------------------------------------------------------------------------

\* What a record was written as.
WrittenAs(records) == [k \in DOMAIN records |-> [kind |-> records[k].kind, id |-> records[k].id]]

\* C23: for every group a Writer can hold, with an id that add_group accepts
\* or numeric_key_next produces, Writer.write packs the record of the group
\* with the id byte -id < 0 and the records of its parameters with the id
\* byte id > 0, and the Reader parses every record back as the same kind
\* under the same id, none taken for the end of the section.
C23_IdBytes ==
    /\ sec.pc = "written" =>
          /\ sec.res = "ok"
          /\ \A k \in DOMAIN sec.records :
                IF sec.records[k].kind = "group" THEN sec.records[k].byte < 0
                ELSE sec.records[k].byte > 0
    /\ sec.pc = "read" => sec.parsed = WrittenAs(sec.records)

-----------------------------------------------------------------------------
(* Properties of the layout of the file written.                            *)
-----------------------------------------------------------------------------

\* C24: in every file that Writer.write produces, also by a Writer made of a
\* Reader by 'consume' or 'copy', the header is at byte 0, the preamble of
\* the parameter section at byte (header.parameter_block - 1) * 512, the
\* first frame at byte (header.data_block - 1) * 512 with header.data_block
\* equal to POINT:DATA_START, and the length is a multiple of 512.
C24_FileLayout ==
    lay.pc = "written" =>
        /\ lay.header_at = 0
        /\ lay.preamble_at = (lay.parameter_block - 1) * BLOCK
        /\ lay.data_at = (lay.data_block - 1) * BLOCK
        /\ lay.data_block = lay.data_start
        /\ lay.pos % BLOCK = 0

\* The payload of every parameter has the length its dimensions give.
Consistent(gs) ==
    \A k \in DOMAIN gs : \A j \in DOMAIN gs[k].params :
        payload_size(gs[k].params[j]) = total_bytes(gs[k].params[j])

\* The binary_size of the groups, every group counted once.
DistinctSize(gs) ==
    LET sum[k \in 0..Len(gs)] == IF k = 0 THEN 0 ELSE sum[k - 1] + group_binary_size(gs[k])
    IN  sum[Len(gs)]

\* C25: Manager.parameter_blocks() is the size of the parameter section in
\* blocks of 512 bytes, ceil((4 + the sum of binary_size over the distinct
\* groups) / 512), the number of blocks that the preamble and the records
\* written occupy; Writer.write sets header.data_block and POINT:DATA_START
\* to that value + 2.
C25_ParameterBlocks ==
    lay.pc # "writer" /\ Consistent(lay.groups) =>
        /\ lay.parameter_blocks = (4 + DistinctSize(lay.groups) + (BLOCK - 1)) \div BLOCK
        /\ lay.parameter_blocks = ((lay.records_end - lay.preamble_at) + (BLOCK - 1)) \div BLOCK
        /\ lay.data_block = lay.parameter_blocks + 2
        /\ lay.data_start = lay.parameter_blocks + 2

\* C30: Writer.write terminates: for every state of a Writer reached through
\* its methods, also with the payload of a parameter replaced through
\* Param.bytes, the padding loop of _write_metadata reaches the position
\* 512 * (data_block - 1) and never steps past it.
C30_PaddingEnds ==
    lay.pc = "padding" => lay.pos <= BLOCK * (lay.data_block - 1)

-----------------------------------------------------------------------------
(* Properties of the names of the parameters.                               *)
-----------------------------------------------------------------------------

RenameOps == {"rename_param", "rename_param_object"}

\* C26: in every Group each parameter is stored under the key equal to its
\* own name attribute, also after rename_param: after rename_param(old, new)
\* the name of the parameter and the name in its record are new, so that a
\* write followed by a read finds the parameter under new and not under old.
C26_RenameParam ==
    /\ \A k \in DOMAIN params : params[k].name = k
    /\ plast.op \in RenameOps /\ plast.res = "ok" =>
          /\ Upper(plast.new) \in read_keys(params)
          /\ Upper(plast.name) # Upper(plast.new) => Upper(plast.name) \notin read_keys(params)

-----------------------------------------------------------------------------
(* Properties of the conversion of DEC floats.                              *)
-----------------------------------------------------------------------------

\* The two 16-bit halves of the bits of the file swapped, the exponent of
\* the result (its bits 23 to 30), and the bits with the exponent less by 2.
HalvesSwapped(bytes) == unpack_uint32(<<bytes[3], bytes[4], bytes[1], bytes[2]>>)
Exponent(bits) == (bits[2] \div 128) % 256
ExponentLess2(bits) == <<bits[1], bits[2] - 256>>

\* C27: for every DEC float, DEC_to_IEEE and DEC_to_IEEE_BYTES give the same
\* IEEE bits: the 16-bit halves swapped and the exponent less by 2; the
\* float of all bits zero becomes 0.0 in both.
C27_DecToIeee ==
    dec.scalar # <<>> /\ dec.bulk # <<>> =>
        /\ dec.scalar = dec.bulk
        /\ Exponent(HalvesSwapped(dec.bytes)) >= 2 =>
              dec.bulk = ExponentLess2(HalvesSwapped(dec.bytes))
        /\ dec.bytes = <<0, 0, 0, 0>> => dec.scalar = <<0, 0>> /\ dec.bulk = <<0, 0>>

-----------------------------------------------------------------------------
(* Properties of the frames written.                                        *)
-----------------------------------------------------------------------------

\* C28: the point words that Writer._write_frames writes for a frame depend
\* on the arrays of that frame and on the scale only: for frames A and B of
\* equal shape, the words written for B when the buffer is [A, B] are those
\* written for B when the buffer is [B], also for an invalid point.
C28_FrameAlone ==
    Len(wfr.both.written) = 2 /\ Len(wfr.alone.written) = 1 =>
        wfr.both.written[2] = wfr.alone.written[1]


\* The header pair and the TRIAL pair of the file are each in order.
PairsOrdered(m) ==
    /\ m.hfirst <= m.hlast
    /\ (m.start # Absent /\ m.end # Absent) => uint32_value(m.start) <= uint32_value(m.end)

\* C29: when the header has first_frame <= last_frame and the TRIAL pair, if
\* present, has ACTUAL_START_FIELD <= ACTUAL_END_FIELD, first_frame and
\* last_frame of the Manager describe the same range: last_frame >=
\* first_frame and frame_count = last_frame - first_frame + 1 >= 1.
C29_FrameRange ==
    (derived.read /\ PairsOrdered(file.m)) =>
        /\ derived.last >= derived.first
        /\ derived.count = derived.last - derived.first + 1
        /\ derived.count >= 1

====
